---- MODULE Spec2Model ----
(***************************************************************************)
(* Model of the expense tracker's server: the relational tables written by *)
(* PostgresStorage and the routes, the passport session of each client,    *)
(* and the request handlers as atomic or stepwise actions.                  *)
(***************************************************************************)
EXTENDS Integers, Sequences, FiniteSets, TLC

(* ------------------------------ bounds --------------------------------- *)
MaxExpenses == 2
MaxBudgets == 1
MaxAllocations == 2
MaxDate == 3
MaxSessions == 2
MaxUserId == 3

UserIds == {1, 2}
Dates == 1..MaxDate
(* the k-th expense created has amount 2^(k-1): every set of expenses has its own sum *)
ExpenseAmount(k) == 2 ^ (k - 1)
AllocationAmounts == {0, 3}
BudgetAmounts == {5}

VARIABLES users, expense_categories, expenses, budgets, budget_allocations,
          incomes, income_categories, nextId, sessions, req, resp

vars == <<users, expense_categories, expenses, budgets, budget_allocations,
          incomes, income_categories, nextId, sessions, req, resp>>

tables == <<users, expense_categories, expenses, budgets, budget_allocations, incomes,
           income_categories>>

(* ------------------------------ helpers -------------------------------- *)
NoResp == [route |-> "none", status |-> 0]

Ids(table) == {table[i].id : i \in 1..Len(table)}

Row(table, id) == table[CHOOSE i \in 1..Len(table) : table[i].id = id]

DeleteRow(table, id) ==
  LET Keep(r) == r.id # id IN SelectSeq(table, Keep)

(* rows.reduce((sum, r) => sum + r.amount, 0) *)
RECURSIVE reduceAmount(_, _)
reduceAmount(rows, sum) ==
  IF rows = <<>> THEN sum ELSE reduceAmount(Tail(rows), sum + Head(rows).amount)

(* the Map with each expense overwriting its category's entry *)
RECURSIVE spendingByCategoryOverwrite(_, _)
spendingByCategoryOverwrite(rows, map) ==
  IF rows = <<>> THEN map
  ELSE LET categoryId == Head(rows).category_id
       IN spendingByCategoryOverwrite(Tail(rows),
            [c \in DOMAIN map \cup {categoryId} |->
               IF c = categoryId THEN Head(rows).amount ELSE map[c]])

(* the Map built by expenses.forEach: get(categoryId) || 0, then set *)
RECURSIVE spendingByCategory(_, _)
spendingByCategory(rows, map) ==
  IF rows = <<>> THEN map
  ELSE LET categoryId == Head(rows).category_id
           currentSpending == IF categoryId \in DOMAIN map THEN map[categoryId] ELSE 0
       IN spendingByCategory(Tail(rows),
            [c \in DOMAIN map \cup {categoryId} |->
               IF c = categoryId THEN currentSpending + Head(rows).amount ELSE map[c]])

EmptyMap == [c \in {} |-> 0]

ZeroPerformance == [allocated |-> 0, spent |-> 0, remaining |-> 0, categories |-> <<>>]

(* FROM budget_allocations ba JOIN expense_categories ec ... WHERE ba.budget_id = $1 *)
allocationsResult(budgetId) ==
  LET Joined(ba) == /\ ba.budget_id = budgetId
                    /\ ba.category_id \in Ids(expense_categories)
  IN SelectSeq(budget_allocations, Joined)

(* the expenses query with the end of the range excluded *)
expensesResultEndExclusive(budget) ==
  LET Joined(e) == /\ e.user_id = budget.user_id
                   /\ e.date >= budget.start_date
                   /\ e.date < budget.end_date
                   /\ e.category_id \in Ids(expense_categories)
  IN SelectSeq(expenses, Joined)

(* FROM expenses e JOIN expense_categories ec ... WHERE user_id, date >=, date <= *)
expensesResult(budget) ==
  LET Joined(e) == /\ e.user_id = budget.user_id
                   /\ e.date >= budget.start_date
                   /\ e.date <= budget.end_date
                   /\ e.category_id \in Ids(expense_categories)
  IN SelectSeq(expenses, Joined)

(* remaining taken from the allocations instead of the budget's target amount *)
totalRemainingOfAllocated(budget, totalAllocated, totalSpent) == totalAllocated - totalSpent

(* const totalRemaining = budget.amount - totalSpent *)
totalRemaining(budget, totalAllocated, totalSpent) == budget.amount - totalSpent

categoryPerformance(allocations, spending) ==
  [i \in 1..Len(allocations) |->
     LET allocation == allocations[i]
         spent == IF allocation.category_id \in DOMAIN spending
                  THEN spending[allocation.category_id] ELSE 0
     IN [categoryId |-> allocation.category_id,
         allocated |-> allocation.amount,
         spent |-> spent,
         remaining |-> allocation.amount - spent]]

(* getBudgetPerformance after the allocations query: the expenses query, the *)
(* grouping by category and the totals                                        *)
performanceOf(allocations, budget) ==
  LET exps == expensesResult(budget)
      spending == spendingByCategory(exps, EmptyMap)
      totalAllocated == reduceAmount(allocations, 0)
      totalSpent == reduceAmount(exps, 0)
  IN [allocated |-> totalAllocated,
      spent |-> totalSpent,
      remaining |-> totalRemaining(budget, totalAllocated, totalSpent),
      categories |-> categoryPerformance(allocations, spending)]

(* the computation without its catch: a failed query goes unnoticed *)
getBudgetPerformanceUncaught(budgetId, queryOk) ==
  IF budgetId \notin Ids(budgets) THEN ZeroPerformance
  ELSE performanceOf(allocationsResult(budgetId), Row(budgets, budgetId))

(* PostgresStorage.getBudgetPerformance; queryOk = FALSE when a query throws *)
getBudgetPerformance(budgetId, queryOk) ==
  IF ~queryOk THEN ZeroPerformance
  ELSE IF budgetId \notin Ids(budgets) THEN ZeroPerformance
  ELSE performanceOf(allocationsResult(budgetId), Row(budgets, budgetId))

(* ------------------- budget performance: operations -------------------- *)
InitTables ==
  /\ users = << [id |-> 1, username |-> "u1", password |-> "h1", role |-> "user",
                 currency |-> "XAF"],
               [id |-> 2, username |-> "u2", password |-> "h2", role |-> "user",
                 currency |-> "XAF"] >>
  /\ expense_categories = << [id |-> 1, user_id |-> 1, is_system |-> FALSE],
                            [id |-> 2, user_id |-> 2, is_system |-> FALSE] >>
  /\ expenses = <<>>
  /\ budgets = <<>>
  /\ budget_allocations = <<>>
  /\ incomes = <<>>
  /\ income_categories = <<>>
  /\ nextId = [expenses |-> 1, budgets |-> 1, budget_allocations |-> 1, incomes |-> 1, income_categories |-> 1,
               users |-> 3, expense_categories |-> 3]

InitPerf ==
  /\ InitTables
  /\ sessions = <<>>
  /\ req = <<>>
  /\ resp = NoResp

(* PostgresStorage.createExpense; expenses.category_id REFERENCES expense_categories *)
createExpense(userId, amount, date, categoryId) ==
  /\ nextId.expenses <= MaxExpenses
  /\ categoryId \in Ids(expense_categories)
  /\ expenses' = Append(expenses,
         [id |-> nextId.expenses, user_id |-> userId, amount |-> amount,
          date |-> date, category_id |-> categoryId])
  /\ nextId' = [nextId EXCEPT !.expenses = @ + 1]
  /\ resp' = NoResp
  /\ UNCHANGED <<sessions, req, users, expense_categories, budgets, budget_allocations, incomes, income_categories>>

(* PostgresStorage.createBudget *)
createBudget(userId, startDate, endDate, amount) ==
  /\ nextId.budgets <= MaxBudgets
  /\ budgets' = Append(budgets,
         [id |-> nextId.budgets, user_id |-> userId, start_date |-> startDate,
          end_date |-> endDate, amount |-> amount])
  /\ nextId' = [nextId EXCEPT !.budgets = @ + 1]
  /\ resp' = NoResp
  /\ UNCHANGED <<sessions, req, users, expense_categories, expenses, budget_allocations, incomes, income_categories>>

(* PostgresStorage.createBudgetAllocation; both foreign keys must resolve *)
createBudgetAllocation(budgetId, categoryId, amount) ==
  /\ nextId.budget_allocations <= MaxAllocations
  /\ budgetId \in Ids(budgets)
  /\ categoryId \in Ids(expense_categories)
  /\ budget_allocations' = Append(budget_allocations,
         [id |-> nextId.budget_allocations, budget_id |-> budgetId,
          category_id |-> categoryId, amount |-> amount])
  /\ nextId' = [nextId EXCEPT !.budget_allocations = @ + 1]
  /\ resp' = NoResp
  /\ UNCHANGED <<sessions, req, users, expense_categories, expenses, budgets, incomes, income_categories>>

(* PostgresStorage.updateBudgetAllocation *)
updateBudgetAllocation(id, budgetId, categoryId, amount) ==
  /\ id \in Ids(budget_allocations)
  /\ budgetId \in Ids(budgets)
  /\ categoryId \in Ids(expense_categories)
  /\ budget_allocations' =
       [i \in 1..Len(budget_allocations) |->
          IF budget_allocations[i].id = id
          THEN [id |-> id, budget_id |-> budgetId,
                category_id |-> categoryId, amount |-> amount]
          ELSE budget_allocations[i]]
  /\ resp' = NoResp
  /\ UNCHANGED <<sessions, req, users, expense_categories, expenses, budgets, incomes, income_categories, nextId>>

(* PostgresStorage.deleteBudgetAllocation *)
deleteBudgetAllocation(id) ==
  /\ id \in Ids(budget_allocations)
  /\ budget_allocations' = DeleteRow(budget_allocations, id)
  /\ resp' = NoResp
  /\ UNCHANGED <<sessions, req, users, expense_categories, expenses, budgets, incomes, income_categories, nextId>>

(* PostgresStorage.deleteExpenseCategory; expenses.category_id and            *)
(* budget_allocations.category_id reference the row without ON DELETE CASCADE, *)
(* so the DELETE of a referenced category raises and removes nothing           *)
deleteExpenseCategory(id) ==
  /\ id \in Ids(expense_categories)
  /\ \A i \in 1..Len(expenses) : expenses[i].category_id # id
  /\ \A i \in 1..Len(budget_allocations) : budget_allocations[i].category_id # id
  /\ expense_categories' = DeleteRow(expense_categories, id)
  /\ resp' = NoResp
  /\ UNCHANGED <<sessions, req, users, expenses, budgets, budget_allocations, incomes, income_categories, nextId>>

(* a call of getBudgetPerformance; its result is the response body *)
BudgetPerformance(budgetId, queryOk) ==
  /\ resp' = [route |-> "getBudgetPerformance", status |-> 200, budgetId |-> budgetId,
              queryOk |-> queryOk, body |-> getBudgetPerformance(budgetId, queryOk)]
  /\ UNCHANGED <<tables, nextId, sessions, req>>

NextPerf ==
  \/ \E u \in UserIds, d \in Dates, c \in 1..2 :
        createExpense(u, ExpenseAmount(nextId.expenses), d, c)
  \/ \E u \in UserIds, s \in Dates, e \in Dates, a \in BudgetAmounts :
        createBudget(u, s, e, a)
  \/ \E b \in 1..MaxBudgets, c \in 1..2, a \in AllocationAmounts :
        createBudgetAllocation(b, c, a)
  \/ \E id \in 1..MaxAllocations, b \in 1..MaxBudgets, c \in 1..2, a \in AllocationAmounts :
        updateBudgetAllocation(id, b, c, a)
  \/ \E id \in 1..MaxAllocations : deleteBudgetAllocation(id)
  \/ \E id \in 1..2 : deleteExpenseCategory(id)
  \/ \E b \in 1..(MaxBudgets + 1), ok \in BOOLEAN : BudgetPerformance(b, ok)

SpecPerf == InitPerf /\ [][NextPerf]_vars

(* ------------------- budget performance: properties -------------------- *)
Rows(table) == {table[i] : i \in 1..Len(table)}

RECURSIVE SumOf(_)
SumOf(S) ==
  IF S = {} THEN 0
  ELSE LET r == CHOOSE x \in S : TRUE IN r.amount + SumOf(S \ {r})

(* the expenses of the budget's owner dated within the budget's range *)
OwnerInRange(budget) ==
  {e \in Rows(expenses) : /\ e.user_id = budget.user_id
                          /\ budget.start_date <= e.date
                          /\ e.date <= budget.end_date}

(* resp is the report of a successful call for an existing budget *)
ReportOfExistingBudget ==
  /\ resp.route = "getBudgetPerformance"
  /\ resp.queryOk
  /\ resp.budgetId \in Ids(budgets)

(* C1: for an existing budget the reported total spent is the sum of the   *)
(* amounts of exactly the expenses of the budget's owner whose date lies   *)
(* in [start_date, end_date], both ends included, whatever their category. *)
C1_SpentIsOwnerInRangeSum ==
  ReportOfExistingBudget =>
    resp.body.spent = SumOf(OwnerInRange(Row(budgets, resp.budgetId)))

C1_Witness ==
  /\ ReportOfExistingBudget
  /\ LET budget == Row(budgets, resp.budgetId)
     IN /\ budget.start_date < budget.end_date
        /\ \E e \in OwnerInRange(budget) : e.date = budget.end_date
        /\ \E e \in Rows(expenses) \ OwnerInRange(budget) : TRUE
        /\ resp.body.spent > 0

(* C2: the report has one category entry per allocation of the budget, in  *)
(* order, with allocated = the allocation's amount, spent = the sum of the *)
(* owner's in-range expenses of the allocation's category, remaining =     *)
(* allocated - spent; total allocated is the sum of the allocations.       *)
C2_CategoryEntries ==
  ReportOfExistingBudget =>
    LET budget == Row(budgets, resp.budgetId)
        OfBudget(ba) == ba.budget_id = budget.id
        allocs == SelectSeq(budget_allocations, OfBudget)
        SpentIn(c) == SumOf({e \in OwnerInRange(budget) : e.category_id = c})
    IN /\ Len(resp.body.categories) = Len(allocs)
       /\ \A i \in 1..Len(allocs) :
            /\ resp.body.categories[i].categoryId = allocs[i].category_id
            /\ resp.body.categories[i].allocated = allocs[i].amount
            /\ resp.body.categories[i].spent = SpentIn(allocs[i].category_id)
            /\ resp.body.categories[i].remaining =
                 allocs[i].amount - SpentIn(allocs[i].category_id)
       /\ resp.body.allocated = SumOf(Rows(allocs))

C2_Witness ==
  /\ ReportOfExistingBudget
  /\ Len(resp.body.categories) = 2
  /\ resp.body.categories[1].categoryId # resp.body.categories[2].categoryId
  /\ resp.body.categories[1].spent = 3
  /\ resp.body.categories[2].spent = 0
  /\ resp.body.allocated = 3

(* C3: the reported remaining is the budget's target amount minus the total *)
(* spent; the reported spent and remaining are those the same database      *)
(* gives with every allocation removed, so no creation, change or deletion  *)
(* of allocations changes them.                                             *)
C3_RemainingIgnoresAllocations ==
  ReportOfExistingBudget =>
    LET budget == Row(budgets, resp.budgetId)
        bare == performanceOf(<<>>, budget)
    IN /\ resp.body.remaining = budget.amount - resp.body.spent
       /\ resp.body.spent = bare.spent
       /\ resp.body.remaining = bare.remaining

C3_Witness ==
  /\ ReportOfExistingBudget
  /\ resp.body.spent > 0
  /\ resp.body.allocated > 0
  /\ resp.body.allocated # Row(budgets, resp.budgetId).amount

(* C19: getBudgetPerformance always returns a result; when the budget has  *)
(* no row or one of its queries throws, the result is allocated 0, spent 0, *)
(* remaining 0 and an empty list of categories.                             *)
C19_FailureGivesZeros ==
  (/\ resp.route = "getBudgetPerformance"
   /\ (~resp.queryOk \/ resp.budgetId \notin Ids(budgets))) =>
     /\ resp.status = 200
     /\ resp.body.allocated = 0
     /\ resp.body.spent = 0
     /\ resp.body.remaining = 0
     /\ resp.body.categories = <<>>

(* a query has thrown for a budget with an allocation and spending *)
C19_Witness ==
  /\ resp.route = "getBudgetPerformance"
  /\ ~resp.queryOk
  /\ resp.budgetId \in Ids(budgets)
  /\ OwnerInRange(Row(budgets, resp.budgetId)) # {}
  /\ allocationsResult(resp.budgetId) # <<>>
  /\ resp.body.spent = 0
  /\ resp.body.categories = <<>>

(* the budget of the call has no row *)
C19_WitnessMissing ==
  /\ resp.route = "getBudgetPerformance"
  /\ resp.queryOk
  /\ resp.budgetId \notin Ids(budgets)
  /\ budgets # <<>>
  /\ resp.body.categories = <<>>

(* ===================== sessions and authentication ===================== *)
Sessions == 1..MaxSessions
Usernames == {"admin", "alice"}
Passwords == {"password", "p1"}
Currencies == {"XAF", "USD"}
RoleInputs == {"admin", "user", "root", ""}

(* scrypt with the salt kept in the stored value: one stored string per password *)
hashPassword(password) ==
  CASE password = "password" -> "scrypt(password)"
    [] password = "p1" -> "scrypt(p1)"
    [] OTHER -> "scrypt(other)"

(* a comparison that accepts every supplied password *)
comparePasswordsAny(supplied, stored) == TRUE

(* comparePasswords: hash the supplied password with the stored salt and compare *)
comparePasswords(supplied, stored) == hashPassword(supplied) = stored

NoUser == [id |-> 0, username |-> "", password |-> "", role |-> "", currency |-> ""]

Idle == [pc |-> "idle", route |-> "none", user |-> NoUser, username |-> "",
         password |-> "", currency |-> "", target |-> 0, role |-> ""]

Request(route, username, password, currency, target, role) ==
  [pc |-> "begin", route |-> route, user |-> NoUser, username |-> username,
   password |-> password, currency |-> currency, target |-> target, role |-> role]

Response(s, route, status, message, body) ==
  [sess |-> s, route |-> route, status |-> status, message |-> message, body |-> body]

(* the response leaves the password in *)
withoutPasswordKept(row) == row

(* const { password, ...userWithoutPassword } = user *)
withoutPassword(row) == [f \in DOMAIN row \ {"password"} |-> row[f]]

(* INSERT INTO users ... RETURNING id, username, name, email *)
registerReturning(row) == [f \in {"id", "username"} |-> row[f]]

UsersNamed(username) ==
  LET Named(u) == u.username = username IN SelectSeq(users, Named)

(* the role lookup that reads the role the session's user was loaded with *)
getUserRoleOfAnyone(userId) == "admin"

(* PostgresStorage.getUserRole: result.rows[0]?.role || 'user' *)
getUserRole(userId) ==
  IF userId \notin Ids(users) THEN "user"
  ELSE IF Row(users, userId).role = "" THEN "user" ELSE Row(users, userId).role

(* the first middleware after passport.session, by route *)
FirstStage(route) ==
  CASE route = "register" -> "registerCheck"
    [] route = "login" -> "login"
    [] route = "logout" -> "logout"
    [] route = "getUser" -> "handler"
    [] route = "patchSettings" -> "requireAuth"
    [] route \in {"adminUsers", "adminSetRole"} -> "requireAdmin"

Finish(s, response) ==
  /\ req' = [req EXCEPT ![s] = Idle]
  /\ resp' = response

(* express-session and passport.session: deserializeUser loads req.user *)
Deserialize(s, queryOk) ==
  /\ req[s].pc = "begin"
  /\ IF sessions[s] = 0
     THEN /\ req' = [req EXCEPT ![s].pc = FirstStage(req[s].route)]
          /\ UNCHANGED <<sessions, resp>>
     ELSE IF ~queryOk
     THEN /\ Finish(s, Response(s, req[s].route, 500, "error", <<>>))
          /\ UNCHANGED sessions
     ELSE IF sessions[s] \notin Ids(users)
     THEN /\ sessions' = [sessions EXCEPT ![s] = 0]
          /\ req' = [req EXCEPT ![s].pc = FirstStage(req[s].route)]
          /\ UNCHANGED resp
     ELSE /\ req' = [req EXCEPT ![s].pc = FirstStage(req[s].route),
                                ![s].user = Row(users, sessions[s])]
          /\ UNCHANGED <<sessions, resp>>
  /\ UNCHANGED <<tables, nextId>>

(* a client sends a request on its session *)
Send(s, request) ==
  /\ req[s].pc = "idle"
  /\ request.route = "register" =>
       nextId.users + Cardinality({t \in Sessions : req[t].route = "register"}) <= MaxUserId
  /\ req' = [req EXCEPT ![s] = request]
  /\ UNCHANGED <<tables, nextId, sessions, resp>>

(* requireAuth that trusts the session and skips the users lookup *)
requireAuthOutcomeNoLookup(user, queryOk) ==
  IF user = NoUser THEN "401" ELSE "next"

(* requireAuth: "401", "503", "logout401" or "next" *)
requireAuthOutcome(user, queryOk) ==
  IF user = NoUser THEN "401"
  ELSE IF ~queryOk THEN "503"
  ELSE IF user.id \notin Ids(users) THEN "logout401"
  ELSE "next"

RequireAuth(s, queryOk) ==
  /\ req[s].pc = "requireAuth"
  /\ LET outcome == requireAuthOutcome(req[s].user, queryOk)
     IN CASE outcome = "401" ->
             /\ Finish(s, Response(s, req[s].route, 401, "", <<>>))
             /\ UNCHANGED sessions
          [] outcome = "503" ->
             /\ Finish(s, Response(s, req[s].route, 503,
                          "Authentication unavailable: database error", <<>>))
             /\ UNCHANGED sessions
          [] outcome = "logout401" ->
             /\ Finish(s, Response(s, req[s].route, 401, "", <<>>))
             /\ sessions' = [sessions EXCEPT ![s] = 0]
          [] outcome = "next" ->
             /\ req' = [req EXCEPT ![s].pc = "handler"]
             /\ UNCHANGED <<sessions, resp>>
  /\ UNCHANGED <<tables, nextId>>

(* requireAdmin: 401 when not authenticated, 403 unless the stored role is admin *)
RequireAdmin(s) ==
  /\ req[s].pc = "requireAdmin"
  /\ IF req[s].user = NoUser
     THEN Finish(s, Response(s, req[s].route, 401, "", <<>>))
     ELSE IF getUserRole(req[s].user.id) # "admin"
     THEN Finish(s, Response(s, req[s].route, 403, "Access denied", <<>>))
     ELSE /\ req' = [req EXCEPT ![s].pc = "handler"]
          /\ UNCHANGED resp
  /\ UNCHANGED <<tables, nextId, sessions>>

(* POST /api/register up to the existence check *)
RegisterCheck(s) ==
  /\ req[s].pc = "registerCheck"
  /\ IF UsersNamed(req[s].username) # <<>>
     THEN Finish(s, Response(s, "register", 400, "Username already exists", <<>>))
     ELSE /\ req' = [req EXCEPT ![s].pc = "registerInsert"]
          /\ UNCHANGED resp
  /\ UNCHANGED <<tables, nextId, sessions>>

(* POST /api/register from the INSERT on; users.username is UNIQUE, and the *)
(* sequence value is consumed even when the INSERT raises                   *)
RegisterInsert(s) ==
  /\ req[s].pc = "registerInsert"
  /\ nextId' = [nextId EXCEPT !.users = @ + 1]
  /\ IF UsersNamed(req[s].username) # <<>>
     THEN /\ Finish(s, Response(s, "register", 500, "duplicate key value", <<>>))
          /\ UNCHANGED <<users, sessions>>
     ELSE LET user == [id |-> nextId.users, username |-> req[s].username,
                       password |-> hashPassword(req[s].password),
                       role |-> "user", currency |-> "XAF"]
          IN /\ users' = Append(users, user)
             /\ sessions' = [sessions EXCEPT ![s] = user.id]
             /\ Finish(s, Response(s, "register", 201, "", <<registerReturning(user)>>))
  /\ UNCHANGED <<expense_categories, expenses, budgets, budget_allocations, incomes, income_categories>>

(* POST /api/login: LocalStrategy, then req.login in the custom callback *)
Login(s, queryOk) ==
  /\ req[s].pc = "login"
  /\ IF ~queryOk
     THEN /\ Finish(s, Response(s, "login", 500, "error", <<>>))
          /\ UNCHANGED sessions
     ELSE LET found == UsersNamed(req[s].username)
          IN IF found = <<>> \/ ~comparePasswords(req[s].password, found[1].password)
             THEN /\ Finish(s, Response(s, "login", 401,
                               "Invalid username or password", <<>>))
                  /\ UNCHANGED sessions
             ELSE /\ sessions' = [sessions EXCEPT ![s] = found[1].id]
                  /\ Finish(s, Response(s, "login", 200, "", <<withoutPassword(found[1])>>))
  /\ UNCHANGED <<tables, nextId>>

(* POST /api/logout *)
Logout(s) ==
  /\ req[s].pc = "logout"
  /\ sessions' = [sessions EXCEPT ![s] = 0]
  /\ Finish(s, Response(s, "logout", 200, "", <<>>))
  /\ UNCHANGED <<tables, nextId>>

(* GET /api/user *)
GetUser(s) ==
  /\ req[s].pc = "handler"
  /\ req[s].route = "getUser"
  /\ IF req[s].user = NoUser
     THEN Finish(s, Response(s, "getUser", 401, "", <<>>))
     ELSE Finish(s, Response(s, "getUser", 200, "", <<withoutPassword(req[s].user)>>))
  /\ UNCHANGED <<tables, nextId, sessions>>

(* PATCH /api/user/settings: storage.updateUserSettings, UPDATE ... RETURNING * *)
PatchSettings(s, queryOk) ==
  /\ req[s].pc = "handler"
  /\ req[s].route = "patchSettings"
  /\ IF ~queryOk \/ req[s].user.id \notin Ids(users)
     THEN /\ Finish(s, Response(s, "patchSettings", 500,
                       "Failed to update user settings", <<>>))
          /\ UNCHANGED users
     ELSE /\ users' = [i \in 1..Len(users) |->
                         IF users[i].id = req[s].user.id
                         THEN [users[i] EXCEPT !.currency = req[s].currency]
                         ELSE users[i]]
          /\ Finish(s, Response(s, "patchSettings", 200, "",
                       <<withoutPassword([Row(users, req[s].user.id)
                                            EXCEPT !.currency = req[s].currency])>>))
  /\ UNCHANGED <<expense_categories, expenses, budgets, budget_allocations, incomes, income_categories,
                 nextId, sessions>>

(* GET /api/admin/users: role is the un-awaited promise of getUserRole *)
AdminUsers(s) ==
  /\ req[s].pc = "handler"
  /\ req[s].route = "adminUsers"
  /\ Finish(s, Response(s, "adminUsers", 200, "",
         [i \in 1..Len(users) |-> [withoutPassword(users[i]) EXCEPT !["role"] = "{}"]]))
  /\ UNCHANGED <<tables, nextId, sessions>>

(* a validation that accepts every role *)
invalidRoleNever(role) == FALSE

(* !role || !['admin', 'user'].includes(role); "" is the role a body without *)
(* one carries                                                               *)
invalidRole(role) == role = "" \/ role \notin {"admin", "user"}

(* PATCH /api/admin/users/:id/role *)
AdminSetRole(s) ==
  /\ req[s].pc = "handler"
  /\ req[s].route = "adminSetRole"
  /\ IF invalidRole(req[s].role)
     THEN /\ Finish(s, Response(s, "adminSetRole", 400, "Invalid role", <<>>))
          /\ UNCHANGED users
     ELSE /\ users' = [i \in 1..Len(users) |->
                         IF users[i].id = req[s].target
                         THEN [users[i] EXCEPT !.role = req[s].role]
                         ELSE users[i]]
          /\ Finish(s, Response(s, "adminSetRole", 200, "User role updated", <<>>))
  /\ UNCHANGED <<expense_categories, expenses, budgets, budget_allocations, incomes, income_categories,
                 nextId, sessions>>

(* a request is taken up while no other request is between its middlewares; *)
(* the await the model interleaves is the one before the INSERT of register *)
SendSerial(s, request) ==
  /\ \A t \in Sessions \ {s} : req[t].pc \in {"idle", "registerInsert"}
  /\ Send(s, request)

RequestsSession ==
  {Request(r, u, p, "", 0, "") : r \in {"register", "login"}, u \in Usernames, p \in Passwords}
  \cup {Request(r, "", "", "", 0, "") : r \in {"logout", "getUser", "adminUsers"}}
  \cup {Request("patchSettings", "", "", c, 0, "") : c \in Currencies}

RequestsAdmin ==
  {Request(r, u, p, "", 0, "") : r \in {"register", "login"}, u \in Usernames, p \in Passwords}
  \cup {Request(r, "", "", "", 0, "") : r \in {"logout", "adminUsers"}}
  \cup {Request("adminSetRole", "", "", "", t, r) : t \in 1..MaxUserId, r \in RoleInputs}

(* the state after runMigrationScript: dbAdmin has inserted the admin user *)
InitAuth ==
  /\ users = << [id |-> 1, username |-> "admin", password |-> hashPassword("password"),
                 role |-> "admin", currency |-> "XAF"] >>
  /\ expense_categories = <<>>
  /\ expenses = <<>>
  /\ budgets = <<>>
  /\ budget_allocations = <<>>
  /\ incomes = <<>>
  /\ income_categories = <<>>
  /\ nextId = [expenses |-> 1, budgets |-> 1, budget_allocations |-> 1, incomes |-> 1, income_categories |-> 1,
               users |-> 2, expense_categories |-> 1]
  /\ sessions = [s \in Sessions |-> 0]
  /\ req = [s \in Sessions |-> Idle]
  /\ resp = Response(0, "none", 0, "", <<>>)

Next ==
  \/ \E s \in Sessions, r \in RequestsSession : SendSerial(s, r)
  \/ \E s \in Sessions : Deserialize(s, TRUE)
  \/ \E s \in Sessions : RequireAuth(s, TRUE)
  \/ \E s \in Sessions : RequireAdmin(s)
  \/ \E s \in Sessions : RegisterCheck(s)
  \/ \E s \in Sessions : RegisterInsert(s)
  \/ \E s \in Sessions : Login(s, TRUE)
  \/ \E s \in Sessions : Logout(s)
  \/ \E s \in Sessions : GetUser(s)
  \/ \E s \in Sessions : PatchSettings(s, TRUE)
  \/ \E s \in Sessions : AdminUsers(s)

Spec == InitAuth /\ [][Next]_vars

NextAdmin ==
  \/ \E s \in Sessions, r \in RequestsAdmin : SendSerial(s, r)
  \/ \E s \in Sessions : Deserialize(s, TRUE)
  \/ \E s \in Sessions : RequireAdmin(s)
  \/ \E s \in Sessions : RegisterCheck(s)
  \/ \E s \in Sessions : RegisterInsert(s)
  \/ \E s \in Sessions : Login(s, TRUE)
  \/ \E s \in Sessions : Logout(s)
  \/ \E s \in Sessions : AdminUsers(s)
  \/ \E s \in Sessions : AdminSetRole(s)

SpecAdmin == InitAuth /\ [][NextAdmin]_vars

(* ------------- requests against a failing database ---------------------- *)
(* a users row disappears from the database (the case requireAuth checks for) *)
DbUserRemoved(id) ==
  /\ id \in Ids(users)
  /\ users' = DeleteRow(users, id)
  /\ UNCHANGED <<expense_categories, expenses, budgets, budget_allocations, incomes, income_categories,
                 nextId, sessions, req, resp>>

RequestsFault ==
  {Request("login", u, p, "", 0, "") : u \in Usernames, p \in Passwords}
  \cup {Request("logout", "", "", "", 0, "")}
  \cup {Request("patchSettings", "", "", c, 0, "") : c \in Currencies}

NextFault ==
  \/ \E s \in Sessions, r \in RequestsFault : Send(s, r)
  \/ \E s \in Sessions, queryOk \in BOOLEAN : Deserialize(s, queryOk)
  \/ \E s \in Sessions, queryOk \in BOOLEAN : RequireAuth(s, queryOk)
  \/ \E s \in Sessions, queryOk \in BOOLEAN : Login(s, queryOk)
  \/ \E s \in Sessions : Logout(s)
  \/ \E s \in Sessions, queryOk \in BOOLEAN : PatchSettings(s, queryOk)
  \/ \E id \in 1..MaxUserId : DbUserRemoved(id)

(* the admin of dbAdmin and one registered user, nobody logged in *)
InitFault ==
  /\ users = << [id |-> 1, username |-> "admin", password |-> hashPassword("password"),
                 role |-> "admin", currency |-> "XAF"],
               [id |-> 2, username |-> "alice", password |-> hashPassword("p1"),
                 role |-> "user", currency |-> "XAF"] >>
  /\ expense_categories = <<>>
  /\ expenses = <<>>
  /\ budgets = <<>>
  /\ budget_allocations = <<>>
  /\ incomes = <<>>
  /\ income_categories = <<>>
  /\ nextId = [expenses |-> 1, budgets |-> 1, budget_allocations |-> 1, incomes |-> 1, income_categories |-> 1,
               users |-> 3, expense_categories |-> 1]
  /\ sessions = [s \in Sessions |-> 0]
  /\ req = [s \in Sessions |-> Idle]
  /\ resp = Response(0, "none", 0, "", <<>>)

SpecFault == InitFault /\ [][NextFault]_vars

(* ------------------------ properties: authentication --------------------- *)
(* the step answers the request of session s *)
Completes(s) == req[s].pc # "idle" /\ req'[s].pc = "idle" /\ resp'.sess = s

AdminRoutes == {"adminUsers", "adminSetRole"}

(* the role column of the user's row; "" when there is no row *)
StoredRole(id) == IF id \in Ids(users) THEN Row(users, id).role ELSE ""

(* C5: an admin route's handler is entered only for an authenticated        *)
(* session whose user has the stored role 'admin'; an unauthenticated       *)
(* request gets 401, an authenticated non-admin gets 403, and in both cases *)
(* no table changes and the handler is not entered.                         *)
C5_AdminOnly ==
  [][\A s \in Sessions :
       /\ (req[s].pc = "requireAdmin" /\ req'[s].pc = "handler") =>
            /\ sessions[s] # 0
            /\ StoredRole(sessions[s]) = "admin"
       /\ (req[s].pc = "requireAdmin" /\ req'[s] # req[s] /\ sessions[s] = 0) =>
            Completes(s) /\ resp'.status = 401 /\ tables' = tables
       /\ (req[s].pc = "requireAdmin" /\ req'[s] # req[s] /\ sessions[s] # 0
             /\ StoredRole(sessions[s]) # "admin") =>
            Completes(s) /\ resp'.status = 403 /\ tables' = tables
       /\ (req[s].route \in AdminRoutes /\ req'[s] # req[s]
             /\ (tables' # tables \/ (Completes(s) /\ resp'.status \notin {401, 403}))) =>
            req[s].pc = "handler" ]_vars

C5_Witness ==
  /\ resp.route = "adminSetRole"
  /\ resp.status = 403
  /\ sessions[resp.sess] # 0
  /\ StoredRole(sessions[resp.sess]) = "user"
  /\ \E i \in 1..Len(users) : users[i].role = "admin"

(* C18: every stored role is 'user' or 'admin'; PATCH                      *)
(* /api/admin/users/:id/role with a missing or any other role answers 400  *)
(* 'Invalid role' and leaves the users unchanged, and with 'user' or       *)
(* 'admin' changes the role of the user named in the path and nothing else. *)
C18_RolesStayValid ==
  /\ [](\A i \in 1..Len(users) : users[i].role \in {"user", "admin"})
  /\ [][\A s \in Sessions :
          (req[s].pc = "handler" /\ req[s].route = "adminSetRole" /\ req'[s] # req[s]) =>
             IF req[s].role \in {"user", "admin"}
             THEN /\ Len(users') = Len(users)
                  /\ \A i \in 1..Len(users) :
                       users'[i] = IF users[i].id = req[s].target
                                   THEN [users[i] EXCEPT !.role = req[s].role]
                                   ELSE users[i]
             ELSE /\ resp'.status = 400
                  /\ resp'.message = "Invalid role"
                  /\ users' = users]_vars

(* the admin has made the registered user an admin *)
C18_Witness ==
  /\ resp.route = "adminSetRole"
  /\ resp.status = 200
  /\ \E i \in 1..Len(users) : users[i].username = "alice" /\ users[i].role = "admin"

(* the credentials of the request of session s match a stored user *)
ValidCredentials(s) ==
  /\ UsersNamed(req[s].username) # <<>>
  /\ UsersNamed(req[s].username)[1].password = hashPassword(req[s].password)

(* C6: a session's user changes only by a successful login or register (to *)
(* the user of the credentials) or by a logout (to none); a login with an   *)
(* unknown username or a wrong password answers 401 and leaves every        *)
(* session as it was; while the session has no user, the requireAuth route  *)
(* and GET /api/user answer 401, and while it has one they answer 200.      *)
C6_SessionLifecycle ==
  [][\A s \in Sessions :
       /\ sessions'[s] # sessions[s] =>
            /\ Completes(s)
            /\ \/ req[s].route = "logout" /\ sessions'[s] = 0
               \/ /\ req[s].route = "login"
                  /\ resp'.status = 200
                  /\ ValidCredentials(s)
                  /\ sessions'[s] = UsersNamed(req[s].username)[1].id
               \/ /\ req[s].route = "register"
                  /\ resp'.status = 201
                  /\ sessions'[s] \notin Ids(users)
                  /\ sessions'[s] \in Ids(users')
                  /\ Row(users', sessions'[s]).username = req[s].username
       /\ (Completes(s) /\ req[s].route = "login") =>
            IF ValidCredentials(s)
            THEN resp'.status = 200 /\ sessions'[s] = UsersNamed(req[s].username)[1].id
            ELSE resp'.status = 401 /\ sessions' = sessions
       /\ (Completes(s) /\ req[s].route = "logout") =>
            resp'.status = 200 /\ sessions'[s] = 0
       /\ (Completes(s) /\ req[s].route \in {"getUser", "patchSettings"}) =>
            IF sessions[s] = 0
            THEN resp'.status = 401
            ELSE resp'.status = 200 /\ resp'.body[1]["id"] = sessions[s] ]_vars

C6_Witness ==
  /\ resp.route = "login"
  /\ resp.status = 401
  /\ sessions[resp.sess] # 0
  /\ \E t \in Sessions \ {resp.sess} : sessions[t] = 0 /\ Len(users) = 2

(* C7: a register for a username that already belongs to a user, also one   *)
(* inserted between this request's existence check and its insert, creates  *)
(* no user and is answered 400 'Username already exists'; no two users ever *)
(* share a username.                                                        *)
C7_DuplicateRegisterRefused ==
  [][/\ \A i, j \in 1..Len(users') : users'[i].username = users'[j].username => i = j
     /\ \A s \in Sessions :
          (Completes(s) /\ req[s].route = "register"
             /\ UsersNamed(req[s].username) # <<>>) =>
            /\ users' = users
            /\ resp'.status = 400
            /\ resp'.message = "Username already exists" ]_vars

(* the later of two concurrent registrations of one username has been answered 500 *)
C7_Witness ==
  /\ resp.route = "register"
  /\ resp.status = 500
  /\ resp.message = "duplicate key value"
  /\ Len(users) = 2

StoredPasswords == {users[i].password : i \in 1..Len(users)}

(* C8: no response body of register, login, GET /api/user, PATCH            *)
(* /api/user/settings or GET /api/admin/users has a password field or holds *)
(* the stored password of any user.                                         *)
C8_NoPasswordInBody ==
  \A i \in 1..Len(resp.body) :
     /\ "password" \notin DOMAIN resp.body[i]
     /\ \A f \in DOMAIN resp.body[i] \ {"id"} : resp.body[i][f] \notin StoredPasswords

C8_Witness ==
  /\ resp.route = "adminUsers"
  /\ resp.status = 200
  /\ Len(resp.body) = 2
  /\ resp.body[2]["username"] = "alice"

(* ------------------ expense, income and budget routes ------------------ *)
MaxIncomes == 1

DataDates == {2, 3}
DataCategoryIds == {1, 4}
CategoryInputs == {0, 1, 3, 4}
IncomeAmounts == {10}
PatchAmounts == {7}
PatchDates == {1}

(* const systemCategories = [{ id: 1 }, { id: 2 }, { id: 3 }] *)
SystemCategoryIds == {1, 2, 3}

ResponseFor(s, route, target, status, message, body) ==
  [sess |-> s, route |-> route, target |-> target, status |-> status,
   message |-> message, body |-> body]

(* requireAuth has let the request through: the session's user has a row *)
Authenticated(s) == sessions[s] \in Ids(users)

(* PostgresStorage.createIncome; category_id and category_name stay NULL *)
createIncome(userId, amount) ==
  /\ nextId.incomes <= MaxIncomes
  /\ incomes' = Append(incomes,
         [id |-> nextId.incomes, user_id |-> userId, amount |-> amount,
          category_id |-> 0, category_name |-> ""])
  /\ nextId' = [nextId EXCEPT !.incomes = @ + 1]
  /\ resp' = NoResp
  /\ UNCHANGED <<sessions, req, users, expense_categories, expenses, budgets, budget_allocations,
                 income_categories>>

(* the SELECT without its WHERE e.user_id = $1 *)
getExpensesByUserIdOfAll(userId) ==
  [i \in 1..Len(expenses) |->
     [id |-> expenses[i].id, user_id |-> expenses[i].user_id,
      amount |-> expenses[i].amount, date |-> expenses[i].date,
      category_id |-> expenses[i].category_id,
      category_name |-> IF expenses[i].category_id \in Ids(expense_categories)
                        THEN Row(expense_categories, expenses[i].category_id).name
                        ELSE "null"]]

(* SELECT e.*, c.name AS category_name FROM expenses e LEFT JOIN expense_categories c *)
(* ... WHERE e.user_id = $1; the rows are returned as they come, in snake_case        *)
getExpensesByUserId(userId) ==
  LET Mine(e) == e.user_id = userId
      rows == SelectSeq(expenses, Mine)
  IN [i \in 1..Len(rows) |->
        [id |-> rows[i].id, user_id |-> rows[i].user_id,
         amount |-> rows[i].amount, date |-> rows[i].date,
         category_id |-> rows[i].category_id,
         category_name |-> IF rows[i].category_id \in Ids(expense_categories)
                           THEN Row(expense_categories, rows[i].category_id).name
                           ELSE "null"]]

(* SELECT * FROM incomes WHERE user_id = $1, mapped to camelCase *)
getIncomesByUserId(userId) ==
  LET Mine(r) == r.user_id = userId
      rows == SelectSeq(incomes, Mine)
  IN [i \in 1..Len(rows) |->
        [id |-> rows[i].id, userId |-> rows[i].user_id, amount |-> rows[i].amount,
         categoryId |-> rows[i].category_id, categoryName |-> rows[i].category_name]]

(* SELECT * FROM budgets WHERE user_id = $1, mapped to camelCase *)
getBudgetsByUserId(userId) ==
  LET Mine(b) == b.user_id = userId
      rows == SelectSeq(budgets, Mine)
  IN [i \in 1..Len(rows) |->
        [id |-> rows[i].id, userId |-> rows[i].user_id,
         startDate |-> rows[i].start_date, endDate |-> rows[i].end_date,
         amount |-> rows[i].amount]]

(* the rows have no categoryId property (the column is category_id), so the lookup *)
(* getExpenseCategoryById(undefined) finds nothing and the name is 'Unknown'       *)
augmentedExpenses(userId) ==
  LET rows == getExpensesByUserId(userId)
  IN [i \in 1..Len(rows) |->
        [id |-> rows[i].id, user_id |-> rows[i].user_id,
         amount |-> rows[i].amount, date |-> rows[i].date,
         category_id |-> rows[i].category_id,
         category_name |-> rows[i].category_name,
         categoryName |-> "Unknown"]]

(* categoryId set: the name of that income category ('Unknown' when there is none); *)
(* else the stored categoryName; else 'Uncategorized'                               *)
augmentedIncomes(userId) ==
  LET rows == getIncomesByUserId(userId)
  IN [i \in 1..Len(rows) |->
        [rows[i] EXCEPT !.categoryName =
           IF rows[i].categoryId # 0 THEN "Unknown"
           ELSE IF rows[i].categoryName # "" THEN rows[i].categoryName
           ELSE "Uncategorized"]]

(* each budget with allocatedAmount, spentAmount, remainingAmount of its performance *)
budgetsWithPerformance(userId) ==
  LET rows == getBudgetsByUserId(userId)
  IN [i \in 1..Len(rows) |->
        LET performance == getBudgetPerformance(rows[i].id, TRUE)
        IN [id |-> rows[i].id, userId |-> rows[i].userId,
            startDate |-> rows[i].startDate, endDate |-> rows[i].endDate,
            amount |-> rows[i].amount,
            allocatedAmount |-> performance.allocated,
            spentAmount |-> performance.spent,
            remainingAmount |-> performance.remaining]]

(* GET /api/expenses *)
GetExpenses(s) ==
  /\ Authenticated(s)
  /\ resp' = ResponseFor(s, "getExpenses", 0, 200, "", augmentedExpenses(sessions[s]))
  /\ UNCHANGED <<tables, nextId, sessions, req>>

(* GET /api/incomes *)
GetIncomes(s) ==
  /\ Authenticated(s)
  /\ resp' = ResponseFor(s, "getIncomes", 0, 200, "", augmentedIncomes(sessions[s]))
  /\ UNCHANGED <<tables, nextId, sessions, req>>

(* GET /api/budgets *)
GetBudgets(s) ==
  /\ Authenticated(s)
  /\ resp' = ResponseFor(s, "getBudgets", 0, 200, "", budgetsWithPerformance(sessions[s]))
  /\ UNCHANGED <<tables, nextId, sessions, req>>

(* the permission test left out *)
forbiddenNever(expense, userId, userRole) == FALSE

(* expense.user_id !== req.user!.id && userRole !== 'admin' *)
forbidden(expense, userId, userRole) ==
  expense.user_id # userId /\ userRole # "admin"

(* the category of the PATCH body: a system id is taken as it is, another id must *)
(* be a category of the caller or a system category, none is refused              *)
categoryOutcome(categoryId, userId) ==
  IF categoryId # 0 /\ categoryId \in SystemCategoryIds THEN "ok"
  ELSE IF categoryId # 0
       THEN IF categoryId \notin Ids(expense_categories) THEN "403"
            ELSE IF /\ Row(expense_categories, categoryId).user_id # userId
                    /\ ~Row(expense_categories, categoryId).is_system THEN "403"
            ELSE "ok"
  ELSE "400"

(* PATCH /api/expenses/:id; bodyValid = FALSE when insertExpenseSchema.parse throws; *)
(* the UPDATE raises on a category_id without a row (foreign key)                    *)
PatchExpense(s, id, bodyValid, amount, date, categoryId) ==
  /\ Authenticated(s)
  /\ LET userId == sessions[s]
         userRole == getUserRole(userId)
     IN IF id \notin Ids(expenses)
        THEN /\ resp' = ResponseFor(s, "patchExpense", id, 404, "Expense not found", <<>>)
             /\ UNCHANGED expenses
        ELSE IF forbidden(Row(expenses, id), userId, userRole)
        THEN /\ resp' = ResponseFor(s, "patchExpense", id, 403,
                          "You don't have permission to update this expense", <<>>)
             /\ UNCHANGED expenses
        ELSE IF ~bodyValid
        THEN /\ resp' = ResponseFor(s, "patchExpense", id, 400, "Validation error", <<>>)
             /\ UNCHANGED expenses
        ELSE IF categoryOutcome(categoryId, userId) = "403"
        THEN /\ resp' = ResponseFor(s, "patchExpense", id, 403, "Invalid category", <<>>)
             /\ UNCHANGED expenses
        ELSE IF categoryOutcome(categoryId, userId) = "400"
        THEN /\ resp' = ResponseFor(s, "patchExpense", id, 400, "Category is required", <<>>)
             /\ UNCHANGED expenses
        ELSE IF categoryId \notin Ids(expense_categories)
        THEN /\ resp' = ResponseFor(s, "patchExpense", id, 500,
                          "Failed to update expense", <<>>)
             /\ UNCHANGED expenses
        ELSE LET updatedExpense == [Row(expenses, id) EXCEPT !.amount = amount,
                                      !.date = date, !.category_id = categoryId]
             IN /\ expenses' = [i \in 1..Len(expenses) |->
                                  IF expenses[i].id = id THEN updatedExpense
                                  ELSE expenses[i]]
                /\ resp' = ResponseFor(s, "patchExpense", id, 200, "", <<updatedExpense>>)
  /\ UNCHANGED <<users, expense_categories, budgets, budget_allocations, incomes, income_categories,
                 nextId, sessions, req>>

(* DELETE /api/expenses/:id *)
DeleteExpense(s, id) ==
  /\ Authenticated(s)
  /\ LET userId == sessions[s]
         userRole == getUserRole(userId)
     IN IF id \notin Ids(expenses)
        THEN /\ resp' = ResponseFor(s, "deleteExpense", id, 404, "Expense not found", <<>>)
             /\ UNCHANGED expenses
        ELSE IF forbidden(Row(expenses, id), userId, userRole)
        THEN /\ resp' = ResponseFor(s, "deleteExpense", id, 403,
                          "You don't have permission to delete this expense", <<>>)
             /\ UNCHANGED expenses
        ELSE /\ expenses' = DeleteRow(expenses, id)
             /\ resp' = ResponseFor(s, "deleteExpense", id, 204, "", <<>>)
  /\ UNCHANGED <<users, expense_categories, budgets, budget_allocations, incomes, income_categories,
                 nextId, sessions, req>>

(* the admin of dbAdmin and one registered user, each logged in on a session, *)
(* each with an expense category                                              *)
InitData ==
  /\ users = << [id |-> 1, username |-> "admin", password |-> hashPassword("password"),
                 role |-> "admin", currency |-> "XAF"],
               [id |-> 2, username |-> "alice", password |-> hashPassword("p1"),
                 role |-> "user", currency |-> "XAF"] >>
  /\ expense_categories = << [id |-> 1, user_id |-> 1, is_system |-> FALSE, name |-> "Food"],
                            [id |-> 4, user_id |-> 2, is_system |-> FALSE, name |-> "Rent"] >>
  /\ expenses = <<>>
  /\ budgets = <<>>
  /\ budget_allocations = <<>>
  /\ incomes = <<>>
  /\ income_categories = <<>>
  /\ nextId = [expenses |-> 1, budgets |-> 1, budget_allocations |-> 1, incomes |-> 1, income_categories |-> 1,
               users |-> 3, expense_categories |-> 5]
  /\ sessions = [s \in Sessions |-> IF s \in UserIds THEN s ELSE 0]
  /\ req = [s \in Sessions |-> Idle]
  /\ resp = NoResp

NextData ==
  \/ \E u \in UserIds, d \in DataDates, c \in DataCategoryIds :
        createExpense(u, ExpenseAmount(nextId.expenses), d, c)
  \/ \E u \in UserIds, a \in BudgetAmounts : createBudget(u, 1, 2, a)
  \/ \E b \in 1..MaxBudgets, c \in DataCategoryIds :
        createBudgetAllocation(b, c, ExpenseAmount(nextId.budget_allocations))
  \/ \E u \in UserIds, a \in IncomeAmounts : createIncome(u, a)
  \/ \E s \in Sessions : GetExpenses(s)
  \/ \E s \in Sessions : GetIncomes(s)
  \/ \E s \in Sessions : GetBudgets(s)
  \/ \E s \in Sessions, id \in 1..MaxExpenses, v \in BOOLEAN, a \in PatchAmounts,
        d \in PatchDates, c \in CategoryInputs : PatchExpense(s, id, v, a, d, c)
  \/ \E s \in Sessions, id \in 1..MaxExpenses : DeleteExpense(s, id)

SpecData == InitData /\ [][NextData]_vars

(* --------------------- properties: records by owner --------------------- *)
ListRoutes == {"getExpenses", "getIncomes", "getBudgets"}

(* the rows of a table that belong to the user *)
Owned(table, userId) == {r \in Rows(table) : r.user_id = userId}

(* the owner written in a row of a response body: user_id in the raw expense *)
(* rows, userId in the mapped income and budget rows                         *)
BodyOwner(route, row) == IF route = "getExpenses" THEN row.user_id ELSE row.userId

ListedTable(route) ==
  CASE route = "getExpenses" -> expenses
    [] route = "getIncomes" -> incomes
    [] route = "getBudgets" -> budgets

(* C9: the body of GET /api/expenses, GET /api/incomes and GET /api/budgets  *)
(* holds one record (id, owner, amount) for each row whose user_id is the    *)
(* caller's id and no other record, and a listed budget's spent amount is    *)
(* the sum over the caller's own expenses in its range: the body is          *)
(* determined by the caller's rows and reads no row of another user.         *)
C9_ListsOnlyCallersRecords ==
  (resp.route \in ListRoutes /\ resp.status = 200) =>
    LET caller == sessions[resp.sess]
        body == resp.body
        mine == Owned(ListedTable(resp.route), caller)
    IN /\ {[id |-> body[i].id, owner |-> BodyOwner(resp.route, body[i]),
            amount |-> body[i].amount] : i \in 1..Len(body)}
            = {[id |-> r.id, owner |-> caller, amount |-> r.amount] : r \in mine}
       /\ Len(body) = Cardinality(mine)
       /\ resp.route = "getBudgets" =>
            \A i \in 1..Len(body) :
               body[i].spentAmount =
                 SumOf({e \in Owned(expenses, caller) :
                          body[i].startDate <= e.date /\ e.date <= body[i].endDate})

(* a user is sent an own expense while the other user has expenses too *)
C9_Witness ==
  /\ resp.route = "getExpenses"
  /\ resp.status = 200
  /\ Len(resp.body) = 1
  /\ \E e \in Rows(expenses) : e.user_id # sessions[resp.sess]
  /\ \E b \in Rows(budgets) : b.user_id # sessions[resp.sess]

ExpenseRoutes == {"patchExpense", "deleteExpense"}

(* C10: an expense row is changed or removed only by PATCH or DELETE          *)
(* /api/expenses/:id of that id from a caller who owns the row or whose       *)
(* stored role is 'admin'; the request of any other authenticated caller is   *)
(* answered 403 and leaves the expenses as they were; the request for an id   *)
(* without a row is answered 404.                                             *)
C10_ExpenseChangeByOwnerOrAdmin ==
  [][/\ \A id \in Ids(expenses) :
          (id \notin Ids(expenses)' \/ Row(expenses, id)' # Row(expenses, id)) =>
            /\ resp'.route \in ExpenseRoutes
            /\ resp'.target = id
            /\ \/ Row(expenses, id).user_id = sessions[resp'.sess]
               \/ StoredRole(sessions[resp'.sess]) = "admin"
     /\ resp'.route \in ExpenseRoutes =>
          LET caller == sessions[resp'.sess]
          IN /\ resp'.target \notin Ids(expenses) =>
                  resp'.status = 404 /\ expenses' = expenses
             /\ (/\ resp'.target \in Ids(expenses)
                 /\ Row(expenses, resp'.target).user_id # caller
                 /\ StoredRole(caller) # "admin") =>
                  resp'.status = 403 /\ expenses' = expenses]_vars

(* a user who is not an admin has been refused the change of another user's expense *)
C10_Witness ==
  /\ resp.route = "patchExpense"
  /\ resp.status = 403
  /\ resp.message = "You don't have permission to update this expense"
  /\ resp.target \in Ids(expenses)
  /\ Row(expenses, resp.target).user_id # sessions[resp.sess]
  /\ \E e \in Rows(expenses) : e.amount \in PatchAmounts

(* --------------------------- GET /api/expenses/:id ----------------------- *)
(* row.property !== value in JavaScript: a property the row does not have *)
(* reads undefined, which differs from every value                        *)
strictNotEqual(row, property, value) ==
  property \notin DOMAIN row \/ row[property] # value

(* SELECT * FROM expenses WHERE id = $1; the row as the driver returns it, *)
(* with the column names of the table; <<>> stands for no row              *)
getExpenseById(id) ==
  IF id \in Ids(expenses) THEN <<Row(expenses, id)>> ELSE <<>>

(* GET /api/expenses/:id *)
GetExpense(s, id) ==
  /\ Authenticated(s)
  /\ LET found == getExpenseById(id)
     IN IF found = <<>>
        THEN resp' = ResponseFor(s, "getExpense", id, 404, "Expense not found", <<>>)
        ELSE IF strictNotEqual(found[1], "userId", sessions[s])
        THEN resp' = ResponseFor(s, "getExpense", id, 403,
                       "You don't have permission to access this expense", <<>>)
        ELSE resp' = ResponseFor(s, "getExpense", id, 200, "", found)
  /\ UNCHANGED <<tables, nextId, sessions, req>>

NextExpense ==
  \/ \E u \in UserIds, d \in DataDates, c \in DataCategoryIds :
        createExpense(u, ExpenseAmount(nextId.expenses), d, c)
  \/ \E s \in Sessions, id \in 1..(MaxExpenses + 1) : GetExpense(s, id)
  \/ \E s \in Sessions, id \in 1..MaxExpenses : DeleteExpense(s, id)

SpecExpense == InitData /\ [][NextExpense]_vars

(* C11: GET /api/expenses/:id answers 404 when no expense has the id, 200   *)
(* with the expense when the caller is its owner, and 403 when the expense  *)
(* belongs to another user.                                                 *)
C11_GetExpenseByOwner ==
  resp.route = "getExpense" =>
    IF resp.target \notin Ids(expenses) THEN resp.status = 404
    ELSE IF Row(expenses, resp.target).user_id = sessions[resp.sess]
         THEN resp.status = 200 /\ resp.body = <<Row(expenses, resp.target)>>
         ELSE resp.status = 403

(* the owner of an expense has asked for it and has been answered 403 *)
C11_Witness ==
  /\ resp.route = "getExpense"
  /\ resp.target \in Ids(expenses)
  /\ Row(expenses, resp.target).user_id = sessions[resp.sess]
  /\ resp.status = 403

(* ------------------- income and income category routes ------------------ *)
MaxIncomeCategories == 2

CategoryNames == {"Gift", "gift"}
CategoryNameInputs == {"", " ", "Gift", "gift"}
PatchIncomeAmounts == {20}
SubcategoryInputs == {0, 1}

(* the name property of a request body: absent, a number, or a string *)
NameInputs ==
  {[kind |-> "missing", text |-> ""], [kind |-> "number", text |-> ""]}
    \cup {[kind |-> "string", text |-> t] : t \in CategoryNameInputs}

(* String.prototype.trim on the texts of the model *)
trim(text) == IF text = " " THEN "" ELSE text

(* LOWER() as the identity: the comparison becomes case-sensitive *)
lowerIdentity(text) == text

(* LOWER() of SQL on the texts of the model *)
lower(text) == IF text = "Gift" THEN "gift" ELSE text

ResponseNamed(s, route, name, status, message, body) ==
  [sess |-> s, route |-> route, name |-> name, status |-> status,
   message |-> message, body |-> body]

(* SELECT id, name FROM income_categories WHERE user_id = $1 AND name = $2 *)
categoryCheck(userId, categoryName) ==
  LET Match(c) == c.user_id = userId /\ c.name = categoryName
  IN SelectSeq(income_categories, Match)

(* the income category of the request: the caller's category of that name, *)
(* or the one the handler inserts when there is none                       *)
finalCategory(userId, categoryName) ==
  IF categoryCheck(userId, categoryName) # <<>>
  THEN categoryCheck(userId, categoryName)[1]
  ELSE [id |-> nextId.income_categories, user_id |-> userId, name |-> categoryName,
        is_system |-> FALSE]

(* income_categories and its sequence after the handler's category lookup *)
CategoryEnsured(userId, categoryName) ==
  IF categoryCheck(userId, categoryName) # <<>>
  THEN UNCHANGED income_categories /\ nextId' = nextId
  ELSE /\ nextId.income_categories <= MaxIncomeCategories
       /\ income_categories' = Append(income_categories, finalCategory(userId, categoryName))
       /\ nextId' = [nextId EXCEPT !.income_categories = @ + 1]

(* POST /api/incomes; the body is not validated: rowValid = FALSE when it   *)
(* lacks amount, description or date, the NOT NULL columns of incomes, so   *)
(* that the INSERT INTO incomes raises, after the category lookup and       *)
(* INSERT have run; the sequence value is consumed by the failed INSERT too *)
PostIncome(s, rowValid, amount, categoryName) ==
  /\ Authenticated(s)
  /\ LET userId == sessions[s]
         name == trim(categoryName)
     IN IF name = ""
        THEN /\ resp' = ResponseFor(s, "postIncome", 0, 400,
                          "Please provide a category name.", <<>>)
             /\ UNCHANGED <<incomes, income_categories, nextId>>
        ELSE LET category == finalCategory(userId, name)
                 income == [id |-> nextId.incomes, user_id |-> userId, amount |-> amount,
                            category_id |-> category.id, category_name |-> category.name]
             IN /\ nextId.incomes <= MaxIncomes
                /\ IF categoryCheck(userId, name) # <<>>
                   THEN /\ UNCHANGED income_categories
                        /\ nextId' = [nextId EXCEPT !.incomes = @ + 1]
                   ELSE /\ nextId.income_categories <= MaxIncomeCategories
                        /\ income_categories' = Append(income_categories, category)
                        /\ nextId' = [nextId EXCEPT !.incomes = @ + 1,
                                                    !.income_categories = @ + 1]
                /\ IF rowValid
                   THEN /\ incomes' = Append(incomes, income)
                        /\ resp' = ResponseFor(s, "postIncome", income.id, 201, "",
                                     <<income>>)
                   ELSE /\ UNCHANGED incomes
                        /\ resp' = ResponseFor(s, "postIncome", 0, 500,
                                     "Failed to create income", <<>>)
  /\ UNCHANGED <<users, expense_categories, expenses, budgets, budget_allocations,
                 sessions, req>>

(* PostgresStorage.getIncomeById: the row mapped to camelCase; <<>> for none *)
getIncomeById(id) ==
  IF id \notin Ids(incomes) THEN <<>>
  ELSE LET row == Row(incomes, id)
       IN << [id |-> row.id, userId |-> row.user_id, amount |-> row.amount,
              categoryId |-> row.category_id, categoryName |-> row.category_name] >>

(* the permission test left out *)
deleteIncomeForbiddenNever(income, userId, userRole) == FALSE

(* income.userId !== req.user!.id && userRole !== 'admin' *)
deleteIncomeForbidden(income, userId, userRole) ==
  strictNotEqual(income, "userId", userId) /\ userRole # "admin"

(* DELETE /api/incomes/:id *)
DeleteIncome(s, id) ==
  /\ Authenticated(s)
  /\ LET userId == sessions[s]
         found == getIncomeById(id)
         userRole == getUserRole(userId)
     IN IF found = <<>>
        THEN /\ resp' = ResponseFor(s, "deleteIncome", id, 404, "Income not found", <<>>)
             /\ UNCHANGED incomes
        ELSE IF deleteIncomeForbidden(found[1], userId, userRole)
        THEN /\ resp' = ResponseFor(s, "deleteIncome", id, 403,
                          "You don't have permission to delete this income", <<>>)
             /\ UNCHANGED incomes
        ELSE /\ incomes' = DeleteRow(incomes, id)
             /\ resp' = ResponseFor(s, "deleteIncome", id, 204, "", <<>>)
  /\ UNCHANGED <<users, expense_categories, expenses, budgets, budget_allocations,
                 income_categories, nextId, sessions, req>>

(* PATCH /api/incomes/:id; bodyValid = FALSE when insertIncomeSchema.parse throws, *)
(* which this handler's catch answers with 500; no income subcategory exists, so   *)
(* a subcategoryId in the body is refused after the category has been ensured      *)
PatchIncome(s, id, bodyValid, amount, categoryName, subcategoryId) ==
  /\ Authenticated(s)
  /\ LET userId == sessions[s]
         found == getIncomeById(id)
         name == trim(categoryName)
     IN IF found = <<>>
        THEN /\ resp' = ResponseFor(s, "patchIncome", id, 404, "Income not found", <<>>)
             /\ UNCHANGED <<incomes, income_categories, nextId>>
        ELSE IF strictNotEqual(found[1], "userId", userId)
        THEN /\ resp' = ResponseFor(s, "patchIncome", id, 403,
                          "You don't have permission", <<>>)
             /\ UNCHANGED <<incomes, income_categories, nextId>>
        ELSE IF ~bodyValid
        THEN /\ resp' = ResponseFor(s, "patchIncome", id, 500,
                          "Failed to update income", <<>>)
             /\ UNCHANGED <<incomes, income_categories, nextId>>
        ELSE IF name = ""
        THEN /\ resp' = ResponseFor(s, "patchIncome", id, 400,
                          "Category name required", <<>>)
             /\ UNCHANGED <<incomes, income_categories, nextId>>
        ELSE IF subcategoryId # 0
        THEN /\ CategoryEnsured(userId, name)
             /\ resp' = ResponseFor(s, "patchIncome", id, 403, "Invalid subcategory", <<>>)
             /\ UNCHANGED incomes
        ELSE LET category == finalCategory(userId, name)
                 updated == [Row(incomes, id) EXCEPT !.amount = amount,
                               !.category_id = category.id,
                               !.category_name = category.name]
             IN /\ CategoryEnsured(userId, name)
                /\ incomes' = [i \in 1..Len(incomes) |->
                                 IF incomes[i].id = id /\ incomes[i].user_id = userId
                                 THEN updated ELSE incomes[i]]
                /\ resp' = ResponseFor(s, "patchIncome", id, 200, "", <<updated>>)
  /\ UNCHANGED <<users, expense_categories, expenses, budgets, budget_allocations,
                 sessions, req>>

(* !name || typeof name !== "string" || name.trim() === "" *)
nameRequired(input) == input.kind # "string" \/ trim(input.text) = ""

(* SELECT 1 FROM income_categories WHERE user_id = $1 AND LOWER(name) = LOWER($2) *)
exists(userId, name) ==
  \E i \in 1..Len(income_categories) :
     /\ income_categories[i].user_id = userId
     /\ lower(income_categories[i].name) = lower(name)

(* POST /api/income-categories *)
PostIncomeCategory(s, input) ==
  /\ Authenticated(s)
  /\ LET userId == sessions[s]
     IN IF nameRequired(input)
        THEN /\ resp' = ResponseNamed(s, "postIncomeCategory", input, 400,
                          "Category name is required", <<>>)
             /\ UNCHANGED <<income_categories, nextId>>
        ELSE IF exists(userId, input.text)
        THEN /\ resp' = ResponseNamed(s, "postIncomeCategory", input, 409,
                          "Category already exists", <<>>)
             /\ UNCHANGED <<income_categories, nextId>>
        ELSE LET row == [id |-> nextId.income_categories, user_id |-> userId,
                         name |-> input.text, is_system |-> FALSE]
             IN /\ nextId.income_categories <= MaxIncomeCategories
                /\ income_categories' = Append(income_categories, row)
                /\ nextId' = [nextId EXCEPT !.income_categories = @ + 1]
                /\ resp' = ResponseNamed(s, "postIncomeCategory", input, 201, "",
                             << [id |-> row.id, userId |-> row.user_id,
                                 name |-> row.name, isSystem |-> row.is_system] >>)
  /\ UNCHANGED <<users, expense_categories, expenses, budgets, budget_allocations,
                 incomes, sessions, req>>

NextIncome ==
  \/ \E s \in Sessions, v \in BOOLEAN, a \in IncomeAmounts, n \in CategoryNameInputs :
        PostIncome(s, v, a, n)
  \/ \E s \in Sessions, id \in 1..(MaxIncomes + 1) : DeleteIncome(s, id)
  \/ \E s \in Sessions, id \in 1..(MaxIncomes + 1), v \in BOOLEAN, a \in PatchIncomeAmounts,
        n \in CategoryNameInputs, sub \in SubcategoryInputs :
        PatchIncome(s, id, v, a, n, sub)
  \/ \E s \in Sessions, input \in NameInputs : PostIncomeCategory(s, input)

SpecIncome == InitData /\ [][NextIncome]_vars

(* ----------------------- properties: incomes ---------------------------- *)
(* C12: an income row disappears only by DELETE /api/incomes/:id from its   *)
(* owner or a caller with stored role 'admin', and changes only by PATCH    *)
(* /api/incomes/:id from its owner; a PATCH by anyone else, an admin        *)
(* included, and a DELETE by a caller who is neither owner nor admin are    *)
(* answered 403; every request not answered 200 or 204 leaves the incomes   *)
(* as they were.                                                            *)
C12_IncomeChangeByOwner ==
  [][/\ \A id \in Ids(incomes) :
          /\ id \notin Ids(incomes)' =>
               /\ resp'.route = "deleteIncome"
               /\ resp'.target = id
               /\ \/ Row(incomes, id).user_id = sessions[resp'.sess]
                  \/ StoredRole(sessions[resp'.sess]) = "admin"
          /\ (id \in Ids(incomes)' /\ Row(incomes, id)' # Row(incomes, id)) =>
               /\ resp'.route = "patchIncome"
               /\ resp'.target = id
               /\ Row(incomes, id).user_id = sessions[resp'.sess]
     /\ resp'.route \in {"patchIncome", "deleteIncome"} =>
          LET caller == sessions[resp'.sess]
              foreign == /\ resp'.target \in Ids(incomes)
                         /\ Row(incomes, resp'.target).user_id # caller
          IN /\ (resp'.route = "patchIncome" /\ foreign) => resp'.status = 403
             /\ (resp'.route = "deleteIncome" /\ foreign /\ StoredRole(caller) # "admin")
                  => resp'.status = 403
             /\ resp'.status \notin {200, 204} => incomes' = incomes]_vars

(* an admin who does not own the income has been refused its modification *)
C12_Witness ==
  /\ resp.route = "patchIncome"
  /\ resp.status = 403
  /\ resp.message = "You don't have permission"
  /\ resp.target \in Ids(incomes)
  /\ StoredRole(sessions[resp.sess]) = "admin"
  /\ Row(incomes, resp.target).user_id # sessions[resp.sess]

BlankTexts == {"", " "}

(* the two texts are equal when letter case is ignored *)
SameIgnoringCase(a, b) == a = b \/ {a, b} = {"Gift", "gift"}

(* C17: POST /api/income-categories with a missing, non-string or blank     *)
(* name answers 400, and with a name equal, ignoring letter case, to the    *)
(* name of an income category the caller owns answers 409 'Category already *)
(* exists'; in both cases no income category is inserted.                   *)
C17_DuplicateIncomeCategory ==
  [][resp'.route = "postIncomeCategory" =>
       LET input == resp'.name
           caller == sessions[resp'.sess]
       IN IF input.kind # "string" \/ input.text \in BlankTexts
          THEN resp'.status = 400 /\ income_categories' = income_categories
          ELSE (\E c \in Rows(income_categories) :
                   c.user_id = caller /\ SameIgnoringCase(c.name, input.text)) =>
                 /\ resp'.status = 409
                 /\ resp'.message = "Category already exists"
                 /\ income_categories' = income_categories]_vars

(* a name differing only in case from an owned category's name has been refused *)
C17_Witness ==
  /\ resp.route = "postIncomeCategory"
  /\ resp.status = 409
  /\ \E c \in Rows(income_categories) :
        /\ c.user_id = sessions[resp.sess]
        /\ c.name # resp.name.text
        /\ SameIgnoringCase(c.name, resp.name.text)

(* C21: when POST /api/incomes or PATCH /api/incomes/:id answers with a     *)
(* status of 400 or more, the request has left the incomes and the income   *)
(* categories as they were before it.                                       *)
C21_ErrorLeavesDatabase ==
  [][(resp'.route \in {"postIncome", "patchIncome"} /\ resp'.status >= 400) =>
       /\ incomes' = incomes
       /\ income_categories' = income_categories]_vars

(* POST /api/incomes has answered 500 and the only income category there is *)
(* belongs to the caller, while no income has ever been inserted            *)
C21_Witness ==
  /\ resp.route = "postIncome"
  /\ resp.status = 500
  /\ incomes = <<>>
  /\ Len(income_categories) = 1
  /\ income_categories[1].user_id = sessions[resp.sess]

(* PATCH /api/incomes/:id has answered 403 'Invalid subcategory' and the   *)
(* caller owns a category that the income's row does not name              *)
C21_WitnessPatch ==
  /\ resp.route = "patchIncome"
  /\ resp.status = 403
  /\ resp.message = "Invalid subcategory"
  /\ resp.target \in Ids(incomes)
  /\ \E c \in Rows(income_categories) :
        /\ c.user_id = sessions[resp.sess]
        /\ c.id = nextId.income_categories - 1
        /\ c.id # Row(incomes, resp.target).category_id

(* ---------------------- budget and allocation routes -------------------- *)
BudgetDateInputs == {<<1, 2>>, <<2, 3>>}
CategoryIdLists == {<<>>, <<1>>, <<4>>, <<1, 4>>, <<3>>}
AllocationCategoryInputs == {1, 3, 4}
AllocationAmountInputs == {3}

(* PostgresStorage.getBudgetById: the row mapped to camelCase; <<>> for none *)
getBudgetById(id) ==
  IF id \notin Ids(budgets) THEN <<>>
  ELSE LET row == Row(budgets, id)
       IN << [id |-> row.id, userId |-> row.user_id, startDate |-> row.start_date,
              endDate |-> row.end_date, amount |-> row.amount] >>

(* SELECT * FROM expense_categories WHERE id = $1: the raw row; <<>> for none *)
getExpenseCategoryById(id) ==
  IF id \in Ids(expense_categories) THEN <<Row(expense_categories, id)>> ELSE <<>>

RECURSIVE Reverse(_)
Reverse(seq) == IF seq = <<>> THEN <<>> ELSE Append(Reverse(Tail(seq)), Head(seq))

(* PostgresStorage.getBudgetAllocations: aliased to camelCase, LEFT JOIN for the *)
(* category name, newest first                                                   *)
getBudgetAllocations(budgetId) ==
  LET Of(ba) == ba.budget_id = budgetId
      rows == Reverse(SelectSeq(budget_allocations, Of))
  IN [i \in 1..Len(rows) |->
        [id |-> rows[i].id, budgetId |-> rows[i].budget_id,
         categoryId |-> rows[i].category_id, amount |-> rows[i].amount,
         categoryName |-> IF rows[i].category_id \in Ids(expense_categories)
                          THEN Row(expense_categories, rows[i].category_id).name
                          ELSE "null"]]

(* the ownership test left out *)
budgetForeignNever(budget, userId) == FALSE

(* budget.userId !== req.user!.id *)
budgetForeign(budget, userId) == strictNotEqual(budget, "userId", userId)

(* the 404 and 403 answers common to the /api/budgets/:id routes; "" when the *)
(* caller may go on                                                           *)
budgetRefusal(found, userId) ==
  IF found = <<>> THEN "404"
  ELSE IF budgetForeign(found[1], userId) THEN "403"
  ELSE ""

Refused(s, route, id, refusal, forbiddenMessage) ==
  IF refusal = "404"
  THEN resp' = ResponseFor(s, route, id, 404, "Budget not found", <<>>)
  ELSE resp' = ResponseFor(s, route, id, 403, forbiddenMessage, <<>>)

(* GET /api/budgets/:id *)
GetBudget(s, id) ==
  /\ Authenticated(s)
  /\ LET found == getBudgetById(id)
         refusal == budgetRefusal(found, sessions[s])
     IN IF refusal # ""
        THEN Refused(s, "getBudget", id, refusal,
                     "You don't have permission to access this budget")
        ELSE resp' = ResponseFor(s, "getBudget", id, 200, "",
                       << [budget |-> found[1],
                           allocations |-> getBudgetAllocations(id),
                           performance |-> getBudgetPerformance(id, TRUE)] >>)
  /\ UNCHANGED <<tables, nextId, sessions, req>>

(* the handler shared word for word by PATCH and PUT /api/budgets/:id; *)
(* bodyValid = FALSE when insertBudgetSchema.parse throws              *)
UpdateBudget(s, route, id, bodyValid, dates, amount) ==
  /\ Authenticated(s)
  /\ LET found == getBudgetById(id)
         refusal == budgetRefusal(found, sessions[s])
     IN IF refusal # ""
        THEN /\ Refused(s, route, id, refusal,
                        "You don't have permission to update this budget")
             /\ UNCHANGED budgets
        ELSE IF ~bodyValid
        THEN /\ resp' = ResponseFor(s, route, id, 400, "Validation error", <<>>)
             /\ UNCHANGED budgets
        ELSE LET updated == [Row(budgets, id) EXCEPT !.start_date = dates[1],
                               !.end_date = dates[2], !.amount = amount]
             IN /\ budgets' = [i \in 1..Len(budgets) |->
                                 IF budgets[i].id = id THEN updated ELSE budgets[i]]
                /\ resp' = ResponseFor(s, route, id, 200, "",
                             << [id |-> updated.id, userId |-> updated.user_id,
                                 startDate |-> updated.start_date,
                                 endDate |-> updated.end_date,
                                 amount |-> updated.amount] >>)
  /\ UNCHANGED <<users, expense_categories, expenses, budget_allocations, incomes,
                 income_categories, nextId, sessions, req>>

(* PATCH /api/budgets/:id *)
PatchBudget(s, id, bodyValid, dates, amount) ==
  UpdateBudget(s, "patchBudget", id, bodyValid, dates, amount)

(* PUT /api/budgets/:id *)
PutBudget(s, id, bodyValid, dates, amount) ==
  UpdateBudget(s, "putBudget", id, bodyValid, dates, amount)

(* DELETE /api/budgets/:id; budget_allocations.budget_id is ON DELETE CASCADE *)
DeleteBudget(s, id) ==
  /\ Authenticated(s)
  /\ LET found == getBudgetById(id)
         refusal == budgetRefusal(found, sessions[s])
         Kept(ba) == ba.budget_id # id
     IN IF refusal # ""
        THEN /\ Refused(s, "deleteBudget", id, refusal,
                        "You don't have permission to delete this budget")
             /\ UNCHANGED <<budgets, budget_allocations>>
        ELSE /\ budgets' = DeleteRow(budgets, id)
             /\ budget_allocations' = SelectSeq(budget_allocations, Kept)
             /\ resp' = ResponseFor(s, "deleteBudget", id, 204, "", <<>>)
  /\ UNCHANGED <<users, expense_categories, expenses, incomes, income_categories,
                 nextId, sessions, req>>

(* GET /api/budgets/:budgetId/allocations *)
GetBudgetAllocations(s, budgetId) ==
  /\ Authenticated(s)
  /\ LET found == getBudgetById(budgetId)
         refusal == budgetRefusal(found, sessions[s])
     IN IF refusal # ""
        THEN Refused(s, "getBudgetAllocations", budgetId, refusal,
                     "You don't have permission to access this budget")
        ELSE resp' = ResponseFor(s, "getBudgetAllocations", budgetId, 200, "",
                       getBudgetAllocations(budgetId))
  /\ UNCHANGED <<tables, nextId, sessions, req>>

(* GET /api/budgets/:budgetId/performance *)
GetBudgetPerformance(s, budgetId) ==
  /\ Authenticated(s)
  /\ LET found == getBudgetById(budgetId)
         refusal == budgetRefusal(found, sessions[s])
     IN IF refusal # ""
        THEN Refused(s, "getBudgetPerformance", budgetId, refusal,
                     "You don't have permission to access this budget")
        ELSE resp' = ResponseFor(s, "getBudgetPerformance", budgetId, 200, "",
                       <<getBudgetPerformance(budgetId, TRUE)>>)
  /\ UNCHANGED <<tables, nextId, sessions, req>>

(* category && category.userId === req.user!.id, on the raw category row *)
categoryOfCaller(categoryId, userId) ==
  /\ getExpenseCategoryById(categoryId) # <<>>
  /\ ~strictNotEqual(getExpenseCategoryById(categoryId)[1], "userId", userId)

(* the category ids the loop of POST /api/budgets creates an allocation for *)
allocatedCategoryIds(categoryIds, userId) ==
  LET Own(categoryId) == categoryOfCaller(categoryId, userId)
  IN SelectSeq(categoryIds, Own)

(* POST /api/budgets: createBudget, then an allocation of amount 0 for each *)
(* listed category that passes the test                                      *)
PostBudget(s, bodyValid, dates, amount, categoryIds) ==
  /\ Authenticated(s)
  /\ IF ~bodyValid
     THEN /\ resp' = [sess |-> s, route |-> "postBudget", target |-> 0,
                      categoryIds |-> categoryIds, status |-> 400,
                      message |-> "Validation error", body |-> <<>>]
          /\ UNCHANGED <<budgets, budget_allocations, nextId>>
     ELSE LET budgetId == nextId.budgets
              chosen == allocatedCategoryIds(categoryIds, sessions[s])
          IN /\ nextId.budgets <= MaxBudgets
             /\ nextId.budget_allocations + Len(chosen) <= MaxAllocations + 1
             /\ budgets' = Append(budgets,
                   [id |-> budgetId, user_id |-> sessions[s], start_date |-> dates[1],
                    end_date |-> dates[2], amount |-> amount])
             /\ budget_allocations' = budget_allocations \o
                   [i \in 1..Len(chosen) |->
                      [id |-> nextId.budget_allocations + i - 1, budget_id |-> budgetId,
                       category_id |-> chosen[i], amount |-> 0]]
             /\ nextId' = [nextId EXCEPT !.budgets = @ + 1,
                                         !.budget_allocations = @ + Len(chosen)]
             /\ resp' = [sess |-> s, route |-> "postBudget", target |-> budgetId,
                         categoryIds |-> categoryIds, status |-> 201, message |-> "",
                         body |-> << [id |-> budgetId, userId |-> sessions[s],
                                      startDate |-> dates[1], endDate |-> dates[2],
                                      amount |-> amount] >>]
  /\ UNCHANGED <<users, expense_categories, expenses, incomes, income_categories,
                 sessions, req>>

(* !budget || budget.userId !== req.user!.id *)
invalidBudget(budgetId, userId) ==
  getBudgetById(budgetId) = <<>> \/ budgetForeign(getBudgetById(budgetId)[1], userId)

(* !category || category.userId !== req.user!.id, on the raw category row *)
invalidCategory(categoryId, userId) == ~categoryOfCaller(categoryId, userId)

(* the INSERT of createBudgetAllocation; category_id REFERENCES expense_categories *)
InsertAllocation(s, route, budgetId, categoryId, amount) ==
  IF categoryId \notin Ids(expense_categories)
  THEN /\ resp' = ResponseFor(s, route, budgetId, 500,
                    "Failed to create budget allocation", <<>>)
       /\ UNCHANGED <<budget_allocations, nextId>>
  ELSE LET row == [id |-> nextId.budget_allocations, budget_id |-> budgetId,
                   category_id |-> categoryId, amount |-> amount]
       IN /\ nextId.budget_allocations <= MaxAllocations
          /\ budget_allocations' = Append(budget_allocations, row)
          /\ nextId' = [nextId EXCEPT !.budget_allocations = @ + 1]
          /\ resp' = ResponseFor(s, route, budgetId, 201, "",
                       << [id |-> row.id, budgetId |-> budgetId,
                           categoryId |-> categoryId, amount |-> amount,
                           categoryName |-> Row(expense_categories, categoryId).name] >>)

(* POST /api/budgets/:budgetId/allocations *)
PostBudgetAllocations(s, budgetId, bodyValid, categoryId, amount) ==
  /\ Authenticated(s)
  /\ IF ~bodyValid
     THEN /\ resp' = ResponseFor(s, "postBudgetAllocations", budgetId, 400,
                       "Invalid data", <<>>)
          /\ UNCHANGED <<budget_allocations, nextId>>
     ELSE IF invalidBudget(budgetId, sessions[s])
     THEN /\ resp' = ResponseFor(s, "postBudgetAllocations", budgetId, 403,
                       "Invalid budget", <<>>)
          /\ UNCHANGED <<budget_allocations, nextId>>
     ELSE InsertAllocation(s, "postBudgetAllocations", budgetId, categoryId, amount)
  /\ UNCHANGED <<users, expense_categories, expenses, budgets, incomes,
                 income_categories, sessions, req>>

(* POST /api/budget-allocations *)
PostBudgetAllocation(s, bodyValid, budgetId, categoryId, amount) ==
  /\ Authenticated(s)
  /\ IF ~bodyValid
     THEN /\ resp' = ResponseFor(s, "postBudgetAllocation", budgetId, 400,
                       "Validation error", <<>>)
          /\ UNCHANGED <<budget_allocations, nextId>>
     ELSE IF invalidBudget(budgetId, sessions[s])
     THEN /\ resp' = ResponseFor(s, "postBudgetAllocation", budgetId, 403,
                       "Invalid budget", <<>>)
          /\ UNCHANGED <<budget_allocations, nextId>>
     ELSE IF invalidCategory(categoryId, sessions[s])
     THEN /\ resp' = ResponseFor(s, "postBudgetAllocation", budgetId, 403,
                       "Invalid category", <<>>)
          /\ UNCHANGED <<budget_allocations, nextId>>
     ELSE InsertAllocation(s, "postBudgetAllocation", budgetId, categoryId, amount)
  /\ UNCHANGED <<users, expense_categories, expenses, budgets, incomes,
                 income_categories, sessions, req>>

(* PATCH /api/budget-allocations/:id: the budget tested is the one named in *)
(* the body, not the one the allocation belongs to                          *)
PatchBudgetAllocation(s, id, bodyValid, budgetId, categoryId, amount) ==
  /\ Authenticated(s)
  /\ IF ~bodyValid
     THEN /\ resp' = ResponseFor(s, "patchBudgetAllocation", id, 400,
                       "Validation error", <<>>)
          /\ UNCHANGED budget_allocations
     ELSE IF invalidBudget(budgetId, sessions[s])
     THEN /\ resp' = ResponseFor(s, "patchBudgetAllocation", id, 403,
                       "Invalid budget", <<>>)
          /\ UNCHANGED budget_allocations
     ELSE IF invalidCategory(categoryId, sessions[s])
     THEN /\ resp' = ResponseFor(s, "patchBudgetAllocation", id, 403,
                       "Invalid category", <<>>)
          /\ UNCHANGED budget_allocations
     ELSE /\ budget_allocations' =
               [i \in 1..Len(budget_allocations) |->
                  IF budget_allocations[i].id = id
                  THEN [id |-> id, budget_id |-> budgetId,
                        category_id |-> categoryId, amount |-> amount]
                  ELSE budget_allocations[i]]
          /\ resp' = ResponseFor(s, "patchBudgetAllocation", id, 200, "", <<>>)
  /\ UNCHANGED <<users, expense_categories, expenses, budgets, incomes,
                 income_categories, nextId, sessions, req>>

(* DELETE /api/budget-allocations/:id: deleteBudgetAllocation(id), then 204 *)
DeleteBudgetAllocation(s, id) ==
  /\ Authenticated(s)
  /\ budget_allocations' = DeleteRow(budget_allocations, id)
  /\ resp' = ResponseFor(s, "deleteBudgetAllocation", id, 204, "", <<>>)
  /\ UNCHANGED <<users, expense_categories, expenses, budgets, incomes,
                 income_categories, nextId, sessions, req>>

NextBudget ==
  \/ \E s \in Sessions, v \in BOOLEAN, d \in BudgetDateInputs, a \in BudgetAmounts,
        c \in CategoryIdLists : PostBudget(s, v, d, a, c)
  \/ \E s \in Sessions, id \in 1..(MaxBudgets + 1) : GetBudget(s, id)
  \/ \E s \in Sessions, id \in 1..(MaxBudgets + 1), v \in BOOLEAN, d \in BudgetDateInputs,
        a \in BudgetAmounts : PatchBudget(s, id, v, d, a)
  \/ \E s \in Sessions, id \in 1..(MaxBudgets + 1), v \in BOOLEAN, d \in BudgetDateInputs,
        a \in BudgetAmounts : PutBudget(s, id, v, d, a)
  \/ \E s \in Sessions, id \in 1..(MaxBudgets + 1) : DeleteBudget(s, id)
  \/ \E s \in Sessions, id \in 1..(MaxBudgets + 1) : GetBudgetAllocations(s, id)
  \/ \E s \in Sessions, id \in 1..(MaxBudgets + 1) : GetBudgetPerformance(s, id)
  \/ \E s \in Sessions, b \in 1..(MaxBudgets + 1), v \in BOOLEAN,
        c \in AllocationCategoryInputs, a \in AllocationAmountInputs :
        PostBudgetAllocations(s, b, v, c, a)
  \/ \E s \in Sessions, b \in 1..(MaxBudgets + 1), v \in BOOLEAN,
        c \in AllocationCategoryInputs, a \in AllocationAmountInputs :
        PostBudgetAllocation(s, v, b, c, a)
  \/ \E s \in Sessions, id \in 1..MaxAllocations, b \in 1..(MaxBudgets + 1), v \in BOOLEAN,
        c \in AllocationCategoryInputs, a \in AllocationAmountInputs :
        PatchBudgetAllocation(s, id, v, b, c, a)
  \/ \E s \in Sessions, id \in 1..MaxAllocations : DeleteBudgetAllocation(s, id)

SpecBudget == InitData /\ [][NextBudget]_vars

(* ------------------ properties: budgets and allocations ----------------- *)
BudgetRoutes == {"getBudget", "patchBudget", "putBudget", "deleteBudget",
                 "getBudgetAllocations", "getBudgetPerformance"}

AllocationRoutes == {"postBudgetAllocations", "postBudgetAllocation",
                     "patchBudgetAllocation", "deleteBudgetAllocation"}

(* the allocations that belong to the budget *)
AllocationsOf(budgetId) == {ba \in Rows(budget_allocations) : ba.budget_id = budgetId}

(* C13: a budget row changes or disappears only through PATCH, PUT or       *)
(* DELETE /api/budgets/:id of its id from its owner; each /api/budgets/:id  *)
(* route (the allocations and performance GETs included) answers 404 for an *)
(* id without a budget and 403 for another user's budget, in both cases     *)
(* with an empty body and the budgets and allocations unchanged, and        *)
(* neither of the two for the owner.                                        *)
C13_BudgetRoutesByOwner ==
  [][/\ \A id \in Ids(budgets) :
          (id \notin Ids(budgets)' \/ Row(budgets, id)' # Row(budgets, id)) =>
            /\ resp'.route \in {"patchBudget", "putBudget", "deleteBudget"}
            /\ resp'.target = id
            /\ Row(budgets, id).user_id = sessions[resp'.sess]
     /\ resp'.route \in BudgetRoutes =>
          IF resp'.target \notin Ids(budgets)
          THEN /\ resp'.status = 404
               /\ resp'.body = <<>>
               /\ budgets' = budgets /\ budget_allocations' = budget_allocations
          ELSE IF Row(budgets, resp'.target).user_id # sessions[resp'.sess]
          THEN /\ resp'.status = 403
               /\ resp'.body = <<>>
               /\ budgets' = budgets /\ budget_allocations' = budget_allocations
          ELSE resp'.status \notin {403, 404}]_vars

(* a user has been refused the view of another user's budget that has an allocation *)
C13_Witness ==
  /\ resp.route = "getBudget"
  /\ resp.status = 403
  /\ resp.target \in Ids(budgets)
  /\ Row(budgets, resp.target).user_id # sessions[resp.sess]
  /\ AllocationsOf(resp.target) # {}

(* C15: a request to one of the four allocation routes by a user who does   *)
(* not own a budget leaves the allocations of that budget as they were.     *)
C15_AllocationsByBudgetOwner ==
  [][resp'.route \in AllocationRoutes =>
       \A b \in Ids(budgets) :
          Row(budgets, b).user_id # sessions[resp'.sess] =>
            AllocationsOf(b)' = AllocationsOf(b)]_vars

(* a DELETE of an allocation has been answered 204 to a user while the only *)
(* budget belongs to another user and its one allocation is gone            *)
C15_Witness ==
  /\ resp.route = "deleteBudgetAllocation"
  /\ resp.status = 204
  /\ budgets # <<>>
  /\ \A b \in Rows(budgets) : b.user_id # sessions[resp.sess]
  /\ nextId.budget_allocations = 2
  /\ budget_allocations = <<>>

(* C16: after a POST /api/budgets answered 201, the new budget has exactly  *)
(* one allocation, of amount 0, for each listed category that exists and    *)
(* belongs to the caller, and none for any other listed category.           *)
C16_InitialAllocations ==
  [][(resp'.route = "postBudget" /\ resp'.status = 201) =>
       LET caller == sessions[resp'.sess]
           listed == {resp'.categoryIds[i] : i \in 1..Len(resp'.categoryIds)}
           own == {c \in listed : /\ c \in Ids(expense_categories)
                                  /\ Row(expense_categories, c).user_id = caller}
           created == {ba \in Rows(budget_allocations') : ba.budget_id = resp'.target}
       IN /\ {ba.category_id : ba \in created} = own
          /\ Cardinality(created) = Cardinality(own)
          /\ \A ba \in created : ba.amount = 0]_vars

(* a budget has been created with a category of the caller listed and has no allocation *)
C16_Witness ==
  /\ resp.route = "postBudget"
  /\ resp.status = 201
  /\ \E i \in 1..Len(resp.categoryIds) :
        /\ resp.categoryIds[i] \in Ids(expense_categories)
        /\ Row(expense_categories, resp.categoryIds[i]).user_id = sessions[resp.sess]
  /\ AllocationsOf(resp.target) = {}

(* ------------------------ expense category routes ----------------------- *)
MaxCategories == 6

(* const defaultCategories = [{ name: 'Food' }, ...] *)
defaultCategories == <<"Food", "Transport", "Utilities", "Health", "Entertainment">>

ExpenseCategoryNameInputs == {"Rent"}
RenameInputs == {"Renamed"}

(* two default categories, the first created one and an id without a row *)
CategoryTargets == {1, 2, MaxCategories, MaxCategories + 1}

(* POST /api/expense-categories; is_system takes the column's default, false *)
PostExpenseCategory(s, bodyValid, name) ==
  /\ Authenticated(s)
  /\ IF ~bodyValid
     THEN /\ resp' = ResponseFor(s, "postExpenseCategory", 0, 400, "Validation error", <<>>)
          /\ UNCHANGED <<expense_categories, nextId>>
     ELSE LET row == [id |-> nextId.expense_categories, user_id |-> sessions[s],
                      is_system |-> FALSE, name |-> name]
          IN /\ nextId.expense_categories <= MaxCategories
             /\ expense_categories' = Append(expense_categories, row)
             /\ nextId' = [nextId EXCEPT !.expense_categories = @ + 1]
             /\ resp' = ResponseFor(s, "postExpenseCategory", row.id, 201, "", <<row>>)
  /\ UNCHANGED <<users, expenses, budgets, budget_allocations, incomes,
                 income_categories, sessions, req>>

(* if (category.userId !== req.user!.id) { if (!category.is_system) 403 }, *)
(* on the raw category row                                                 *)
categoryRefused(category, userId) ==
  strictNotEqual(category, "userId", userId) /\ ~category.is_system

(* PATCH /api/expense-categories/:id *)
PatchExpenseCategory(s, id, bodyValid, name) ==
  /\ Authenticated(s)
  /\ LET found == getExpenseCategoryById(id)
     IN IF found = <<>>
        THEN /\ resp' = ResponseFor(s, "patchExpenseCategory", id, 404,
                          "Category not found", <<>>)
             /\ UNCHANGED expense_categories
        ELSE IF categoryRefused(found[1], sessions[s])
        THEN /\ resp' = ResponseFor(s, "patchExpenseCategory", id, 403,
                          "You don't have permission to update this category", <<>>)
             /\ UNCHANGED expense_categories
        ELSE IF ~bodyValid
        THEN /\ resp' = ResponseFor(s, "patchExpenseCategory", id, 400,
                          "Validation error", <<>>)
             /\ UNCHANGED expense_categories
        ELSE LET updatedCategory == [found[1] EXCEPT !.name = name]
             IN /\ expense_categories' =
                     [i \in 1..Len(expense_categories) |->
                        IF expense_categories[i].id = id THEN updatedCategory
                        ELSE expense_categories[i]]
                /\ resp' = ResponseFor(s, "patchExpenseCategory", id, 200, "",
                             <<updatedCategory>>)
  /\ UNCHANGED <<users, expenses, budgets, budget_allocations, incomes,
                 income_categories, nextId, sessions, req>>

(* DELETE /api/expense-categories/:id; the DELETE raises while an expense or *)
(* an allocation references the category                                     *)
DeleteExpenseCategory(s, id) ==
  /\ Authenticated(s)
  /\ LET found == getExpenseCategoryById(id)
     IN IF found = <<>>
        THEN /\ resp' = ResponseFor(s, "deleteExpenseCategory", id, 404,
                          "Category not found", <<>>)
             /\ UNCHANGED expense_categories
        ELSE IF categoryRefused(found[1], sessions[s])
        THEN /\ resp' = ResponseFor(s, "deleteExpenseCategory", id, 403,
                          "You don't have permission to delete this category", <<>>)
             /\ UNCHANGED expense_categories
        ELSE IF \/ \E i \in 1..Len(expenses) : expenses[i].category_id = id
                \/ \E i \in 1..Len(budget_allocations) :
                      budget_allocations[i].category_id = id
        THEN /\ resp' = ResponseFor(s, "deleteExpenseCategory", id, 500,
                          "Failed to delete expense category", <<>>)
             /\ UNCHANGED expense_categories
        ELSE /\ expense_categories' = DeleteRow(expense_categories, id)
             /\ resp' = ResponseFor(s, "deleteExpenseCategory", id, 204, "", <<>>)
  /\ UNCHANGED <<users, expenses, budgets, budget_allocations, incomes,
                 income_categories, nextId, sessions, req>>

(* the admin and a registered user, both logged in; the admin owns the five *)
(* default categories a first GET /api/expense-categories has inserted      *)
InitCategory ==
  /\ users = << [id |-> 1, username |-> "admin", password |-> hashPassword("password"),
                 role |-> "admin", currency |-> "XAF"],
               [id |-> 2, username |-> "alice", password |-> hashPassword("p1"),
                 role |-> "user", currency |-> "XAF"] >>
  /\ expense_categories =
       [i \in 1..Len(defaultCategories) |->
          [id |-> i, user_id |-> 1, is_system |-> TRUE, name |-> defaultCategories[i]]]
  /\ expenses = <<>>
  /\ budgets = <<>>
  /\ budget_allocations = <<>>
  /\ incomes = <<>>
  /\ income_categories = <<>>
  /\ nextId = [expenses |-> 1, budgets |-> 1, budget_allocations |-> 1, incomes |-> 1,
               income_categories |-> 1, users |-> 3,
               expense_categories |-> Len(defaultCategories) + 1]
  /\ sessions = [s \in Sessions |-> IF s \in UserIds THEN s ELSE 0]
  /\ req = [s \in Sessions |-> Idle]
  /\ resp = NoResp

NextCategory ==
  \/ \E s \in Sessions, v \in BOOLEAN, n \in ExpenseCategoryNameInputs :
        PostExpenseCategory(s, v, n)
  \/ \E s \in Sessions, id \in CategoryTargets, v \in BOOLEAN, n \in RenameInputs :
        PatchExpenseCategory(s, id, v, n)
  \/ \E s \in Sessions, id \in CategoryTargets : DeleteExpenseCategory(s, id)
  \/ \E u \in UserIds : createExpense(u, ExpenseAmount(nextId.expenses), 2, 1)

SpecCategory == InitCategory /\ [][NextCategory]_vars

(* C14: PATCH and DELETE /api/expense-categories/:id of an existing category *)
(* are not refused with 403 when the caller owns the category, and are       *)
(* answered 403 with the categories unchanged when the caller does not own   *)
(* it.                                                                       *)
C14_CategoryChangeByOwner ==
  [][(/\ resp'.route \in {"patchExpenseCategory", "deleteExpenseCategory"}
      /\ resp'.target \in Ids(expense_categories)) =>
       IF Row(expense_categories, resp'.target).user_id = sessions[resp'.sess]
       THEN resp'.status # 403
       ELSE resp'.status = 403 /\ expense_categories' = expense_categories]_vars

(* the owner of a category has been refused its update *)
C14_Witness ==
  /\ resp.route = "patchExpenseCategory"
  /\ resp.status = 403
  /\ resp.target \in Ids(expense_categories)
  /\ Row(expense_categories, resp.target).user_id = sessions[resp.sess]

(* a user has renamed a category that another user owns *)
C14_WitnessForeign ==
  /\ resp.route = "patchExpenseCategory"
  /\ resp.status = 200
  /\ resp.target \in Ids(expense_categories)
  /\ Row(expense_categories, resp.target).user_id # sessions[resp.sess]
  /\ Row(expense_categories, resp.target).name \in RenameInputs

(* ------------- GET /api/expense-categories, query by query -------------- *)
(* The handler awaits each of its queries, so requests interleave between  *)
(* them: req[s].pc is the query the request of session s runs next and     *)
(* req[s].target the index of the default category its loop inserts next.  *)

categoriesOf(userId) ==
  {i \in 1..Len(expense_categories) : expense_categories[i].user_id = userId}

(* SELECT COUNT(star) FROM expense_categories WHERE user_id = $1, and the test *)
(* of the count                                                            *)
CountCategories(s) ==
  /\ Authenticated(s)
  /\ req[s].pc = "idle"
  /\ req' = [req EXCEPT ![s] =
       [Idle EXCEPT !.route = "getExpenseCategories",
                    !.pc = IF Cardinality(categoriesOf(sessions[s])) = 0
                           THEN "insertDefaults" ELSE "select",
                    !.target = 1]]
  /\ UNCHANGED <<tables, nextId, sessions, resp>>

(* one turn of for (const cat of defaultCategories) await pool.query(INSERT) *)
InsertDefault(s) ==
  /\ req[s].pc = "insertDefaults"
  /\ expense_categories' = Append(expense_categories,
        [id |-> nextId.expense_categories, user_id |-> sessions[s],
         is_system |-> TRUE, name |-> defaultCategories[req[s].target]])
  /\ nextId' = [nextId EXCEPT !.expense_categories = @ + 1]
  /\ req' = [req EXCEPT ![s] =
       IF req[s].target < Len(defaultCategories)
       THEN [req[s] EXCEPT !.target = @ + 1]
       ELSE [req[s] EXCEPT !.pc = "select"]]
  /\ UNCHANGED <<users, expenses, budgets, budget_allocations, incomes,
                 income_categories, sessions, resp>>

(* SELECT ... WHERE is_system = true OR user_id = $1; res.json(rows) *)
SelectCategories(s) ==
  /\ req[s].pc = "select"
  /\ resp' = ResponseFor(s, "getExpenseCategories", 0, 200, "",
        SelectSeq(expense_categories,
                  LAMBDA c : c.is_system \/ c.user_id = sessions[s]))
  /\ req' = [req EXCEPT ![s] = Idle]
  /\ UNCHANGED <<tables, nextId, sessions>>

(* two registered users without categories; every session is logged in as *)
(* one of them, the same user possibly from several sessions              *)
InitDefaults ==
  /\ users = << [id |-> 1, username |-> "admin", password |-> hashPassword("password"),
                 role |-> "admin", currency |-> "XAF"],
               [id |-> 2, username |-> "alice", password |-> hashPassword("p1"),
                 role |-> "user", currency |-> "XAF"] >>
  /\ expense_categories = <<>>
  /\ expenses = <<>>
  /\ budgets = <<>>
  /\ budget_allocations = <<>>
  /\ incomes = <<>>
  /\ income_categories = <<>>
  /\ nextId = [expenses |-> 1, budgets |-> 1, budget_allocations |-> 1, incomes |-> 1,
               income_categories |-> 1, users |-> 3, expense_categories |-> 1]
  /\ sessions \in [Sessions -> UserIds]
  /\ req = [s \in Sessions |-> Idle]
  /\ resp = NoResp

NextDefaults ==
  \/ \E s \in Sessions : CountCategories(s)
  \/ \E s \in Sessions : InsertDefault(s)
  \/ \E s \in Sessions : SelectCategories(s)

SpecDefaults == InitDefaults /\ [][NextDefaults]_vars

NamedOf(userId, name) ==
  {i \in categoriesOf(userId) : expense_categories[i].name = name}

Quiet(userId) == \A s \in Sessions : sessions[s] = userId => req[s].pc = "idle"

(* C20: once the GET /api/expense-categories requests of a user who owned  *)
(* no category have all been answered, the user owns exactly the five      *)
(* default categories, each of them once.                                  *)
C20_DefaultsOnce ==
  \A u \in UserIds :
     (Quiet(u) /\ categoriesOf(u) # {}) =>
        /\ Cardinality(categoriesOf(u)) = Len(defaultCategories)
        /\ \A k \in 1..Len(defaultCategories) :
              Cardinality(NamedOf(u, defaultCategories[k])) = 1

(* two requests of one user have both been answered and the user owns a *)
(* default category twice                                               *)
C20_Witness ==
  /\ resp.route = "getExpenseCategories"
  /\ Quiet(sessions[resp.sess])
  /\ \E k \in 1..Len(defaultCategories) :
        Cardinality(NamedOf(sessions[resp.sess], defaultCategories[k])) = 2

====
